---- MODULE Spec2Model ----
(***************************************************************************)
(* Model of the OpenSRF WebSocket gateway (opensrf/src/bin/websockets.rs), *)
(* of the Evergreen HTTP gateway (evergreen/src/bin/eg-http-gateway.rs)    *)
(* of the bus watcher (opensrf/src/bin/buswatch.rs) and of the checkin of  *)
(* the SIP2 server (sip2-server/src/checkin.rs).                           *)
(*                                                                         *)
(* Spec        one client session: the inbound task, the outbound task and *)
(*             the main task (Session::listen) around one channel.         *)
(* FairSpec    the same session with weak fairness on the main task and on *)
(*             the end of the client connection.                           *)
(* ServerSpec  the accept loop of Server::run with its thread pool.        *)
(* BusSpec     the session with the bus list its replies arrive in.        *)
(* GatewaySpec one worker of the HTTP gateway and the requests it takes.   *)
(* ReadSpec    read_request applied to a request cut into socket reads.    *)
(* ScrubSpec   scrub_nulls applied to a JSON value.                        *)
(* LogSpec     log_request of both gateways applied to two API calls.      *)
(* WatchSpec   the bus watcher, its broker and the lines it logs.          *)
(* RelaySpec   the main task relaying one frame of its backlog.            *)
(* BacklogSpec the session whose relayed messages are all answered.        *)
(* LateSpec    a gateway worker after a request that ended on a timeout.   *)
(* EofSpec     read_request, pass by pass, for a client that hangs up.     *)
(* CheckinSpec handle_checkin with its backend calls and override retry.   *)
(***************************************************************************)
EXTENDS Integers, Sequences, FiniteSets, TLC

(***************************************************************************)
(* Bounds of the model.                                                    *)
(***************************************************************************)
\* Session.max_parallel (OSRF_WS_MAX_PARALLEL, default MAX_ACTIVE_REQUESTS = 8)
max_parallel == 2
\* MAX_BACKLOG_SIZE is 1000 in the source; scaled so that a full backlog is reached
MAX_BACKLOG_SIZE == 2
\* messages sent to the main task that it has not finished handling
MaxChan == 1
\* size of the thread pool, ThreadPool::new(MAX_WS_CLIENTS); 256 in the source
MAX_WS_CLIENTS == 2
\* Bus.recv calls of one HTTP gateway request that return a TransportMessage
MaxRecv == 2
\* requests one HTTP gateway worker takes (mptc max_worker_requests)
MaxRequests == 2
\* bytes that follow the header block of an HTTP request
MaxBody == 3
\* members of one JSON array or object
MaxWidth == 2
\* parameters of one logged API call
MaxParams == 2
\* values waiting in one list of the broker
MaxLen == 1
\* polling ticks of the bus watcher
MaxTicks == 2
\* pushes and pops of other bus clients while the watcher runs
MaxChanges == 1
\* reads of a closed connection that are followed
MaxZeroReads == 2
\* backend checkin attempts of one checkin message that are followed
MaxAttempts == 3
\* TransportMessages waiting in one list of the bus
MaxBus == 1
\* largest configured Server.max_clients (OSRF_WS_MAX_CLIENTS)
MaxClientsCfg == 3
\* connections offered to the server
MaxConns == 5

(***************************************************************************)
(* Program constants.                                                      *)
(***************************************************************************)
MAX_MESSAGE_SIZE == 10485760
MAX_THREAD_SIZE == 256
\* message::MessageStatus::BadRequest as usize
BadRequest == 400

VARIABLES
    inbound,         \* SessionInbound::run: "running" | "ended"
    outbound,        \* SessionOutbound::run: "running" | "ended"
    main,            \* Session::listen: "recv" | "queue" | "closed" | "error"
    chan,            \* the mpsc channel to the main task
    request_queue,   \* Session.request_queue
    reqs_in_flight,  \* Session.reqs_in_flight
    osrf_sessions,   \* Session.osrf_sessions: thread -> address
    bus_sent,        \* TransportMessages pushed to the bus in this loop iteration
    ws_sent,         \* messages written to the websocket in this loop iteration
    cur,             \* the channel message this loop iteration handles
    dropped,         \* a Text frame was dropped because the backlog was full
    max_clients,     \* Server.max_clients
    conn,            \* Server::run: what became of each connection
    server,          \* Server::run: where the accept loop is
    bus_list,        \* the bus: the list of TransportMessages at each client address
    partial_buffer,  \* GatewayHandler.partial_buffer
    gw_pc,           \* GatewayHandler: "idle" between requests | "recv" in the relay loop
    request,         \* the request the gateway worker is handling or handled last
    replies,         \* relay_to_osrf: the replies collected so far
    received,        \* what each Bus.recv of this request returned
    response,        \* what handle_request wrote to the client's stream
    sends,           \* calls of Bus.send_to for this request
    handled,         \* requests this gateway worker has taken
    arg,             \* the argument of a function that is applied on its own
    ret,             \* what the function returned
    broker,          \* the broker: the list and the TTL of each key
    watcher,         \* BusWatch and where its watch() loop is
    emitted          \* what the watcher did in this tick: log lines, set_key_timeout calls

svars == <<inbound, outbound, main, chan, request_queue, reqs_in_flight,
           osrf_sessions, bus_sent, ws_sent, cur, dropped>>
cvars == <<max_clients, conn, server>>
bvars == <<bus_list>>
gvars == <<partial_buffer, gw_pc, request, replies, received, response, sends,
           handled>>
\* the variables of the other programs
fvars == <<arg, ret>>
wvars == <<broker, watcher, emitted>>
\* the variables of the programs that follow the gateways
yvars == <<fvars, wvars>>
xvars == <<bvars, gvars, yvars>>
vars == <<inbound, outbound, main, chan, request_queue, reqs_in_flight,
          osrf_sessions, bus_sent, ws_sent, cur, dropped,
          max_clients, conn, server, bus_list,
          partial_buffer, gw_pc, request, replies, received, response, sends,
          handled, arg, ret, broker, watcher, emitted>>

(***************************************************************************)
(* Values.                                                                 *)
(***************************************************************************)
Null == "NULL"
Idle == [kind |-> "Idle", msg |-> Null, rif0 |-> 0, qlen0 |-> 0]

ServiceAddress(service) == <<"service", service>>
RouterAddress(domain) == <<"router", domain>>
\* osrf_sender.address(): the client address both bus handles share
BusAddress == <<"client", "private.localhost">>
AddressDomain(a) == a[2]

\* thread.len()
ThreadLen(t) == IF t = "TLONG" THEN MAX_THREAD_SIZE + 1 ELSE 2

Array(list) == [is_array |-> TRUE, list |-> list]
Single(v) == [is_array |-> FALSE, value |-> v]

\* A Text frame: its byte length, whether json::parse accepts it, and the
\* thread, service and osrf_msg keys of the wrapper (Null when absent or not
\* a string).  A sub-message is CONNECT, REQUEST or DISCONNECT, STATUS (a
\* message of another type), BAD (Message::from_json_value gives None) or
\* NULL (a JSON null).
Text(thread, service, osrf_msg, len, valid) ==
    [type |-> "Text", len |-> len, valid |-> valid, thread |-> thread,
     service |-> service, osrf_msg |-> osrf_msg]

TextFrames ==
    { Text("T1", "svc", Array(<<"CONNECT">>), 64, TRUE),
      Text("T1", "svc", Array(<<"REQUEST", "REQUEST">>), 64, TRUE),
      Text("T1", "svc", Array(<<"DISCONNECT">>), 64, TRUE),
      Text("T2", "svc", Single("REQUEST"), MAX_MESSAGE_SIZE - 1, TRUE),
      Text("T1", "svc", Array(<<"REQUEST">>), MAX_MESSAGE_SIZE, TRUE) }

\* OwnedMessage
ClientMessages ==
    TextFrames \cup {[type |-> "Ping", data |-> "p"], [type |-> "Close"],
                     [type |-> "Binary"]}

Status(code) == [type |-> "STATUS", code |-> code]
Result == [type |-> "RESULT"]

WorkerW == <<"client", "workerW">>
WorkerV == <<"client", "workerV">>

Reply(from, thread, body) == [from |-> from, thread |-> thread, body |-> body]

\* message::TransportMessage arriving at the session's bus address
Replies ==
    { Reply(WorkerW, "T1", <<Status(200)>>),
      Reply(WorkerW, "T1", <<Status(100)>>),
      Reply(WorkerW, "T1", <<Result, Status(205)>>),
      Reply(WorkerW, "T1", <<Status(205), Status(205)>>),
      Reply(WorkerW, "T1", <<Status(200), Status(404)>>),
      Reply(WorkerW, "T1", <<Status(400), Status(200)>>),
      Reply(WorkerV, "T2", <<Status(200)>>),
      Reply(WorkerV, "T2", <<Status(500)>>) }

(***************************************************************************)
(* HashMap<String, String>                                                 *)
(***************************************************************************)
EmptyMap == [t \in {} |-> Null]
MapInsert(m, k, v) == [t \in (DOMAIN m) \cup {k} |-> IF t = k THEN v ELSE m[t]]
\* a remove that is left out
MapRemoveNothing(m, k) == m
MapRemove(m, k) == [t \in (DOMAIN m) \ {k} |-> m[t]]

(***************************************************************************)
(* Bus (opensrf/src/bus.rs): send pushes to the queue named by tm.to,      *)
(* send_to pushes to the queue it is given.                                *)
(***************************************************************************)
BusSend(tm) == [queue |-> tm.to, tm |-> tm]
BusSendTo(tm, queue) == [queue |-> queue, tm |-> tm]

\* message::MessageStatus
StatusOk == 200
StatusComplete == 205

(***************************************************************************)
(* Session::process_message_queue, the loop condition                      *)
(***************************************************************************)
\* the limit taken as inclusive
CanRelayInclusive(rif) == rif <= max_parallel
\* the loop left one request short of the limit
CanRelayShort(rif) == rif < max_parallel - 1
CanRelay(rif) == rif < max_parallel

(***************************************************************************)
(* Session::handle_inbound_message, the Text branch                        *)
(***************************************************************************)
\* a frame of exactly MAX_MESSAGE_SIZE bytes let through
TooBigStrict(tlen) == tlen > MAX_MESSAGE_SIZE
TooBig(tlen) == tlen >= MAX_MESSAGE_SIZE

\* one frame more than MAX_BACKLOG_SIZE let in
BacklogFullStrict(queue) == Len(queue) > MAX_BACKLOG_SIZE
BacklogFull(queue) == Len(queue) >= MAX_BACKLOG_SIZE

\* push_front in place of push_back
QueueTextFront(queue, entry) ==
    IF TooBig(entry.frame.len) THEN queue
    ELSE IF BacklogFull(queue) THEN queue
    ELSE <<entry>> \o queue

QueueText(queue, entry) ==
    IF TooBig(entry.frame.len) THEN queue
    ELSE IF BacklogFull(queue) THEN queue
    ELSE Append(queue, entry)

\* Ok(closing) or Err, the queue, and what was written to the websocket;
\* wsOk: whether the socket write succeeds
handle_inbound_message(msg, queue, wsOk) ==
    CASE msg.type = "Text" ->
           [ok |-> TRUE, closing |-> FALSE, sent |-> <<>>,
            queue |-> QueueText(queue, [frame |-> msg])]
      [] msg.type = "Ping" ->
           [ok |-> wsOk, closing |-> FALSE, queue |-> queue,
            sent |-> IF wsOk THEN <<[type |-> "Pong", data |-> msg.data]>>
                     ELSE <<>>]
      [] msg.type = "Close" ->
           [ok |-> TRUE, closing |-> TRUE, sent |-> <<>>, queue |-> queue]
      [] OTHER ->
           [ok |-> TRUE, closing |-> FALSE, sent |-> <<>>, queue |-> queue]

(***************************************************************************)
(* Session::relay_to_osrf                                                  *)
(***************************************************************************)
\* the cached address ignored: every frame goes through the router
RecipientViaRouter(sess, thread, service) ==
    [to |-> ServiceAddress(service),
     router |-> RouterAddress(AddressDomain(BusAddress))]

\* the recipient and, when the thread has no cached address, the router queue
Recipient(sess, thread, service) ==
    IF thread \in DOMAIN sess
    THEN [to |-> sess[thread], router |-> Null]
    ELSE [to |-> ServiceAddress(service),
          router |-> RouterAddress(AddressDomain(BusAddress))]

\* msg_list should be an array, but may be a single opensrf message
MsgList(osrf_msg) ==
    IF osrf_msg.is_array THEN osrf_msg.list ELSE <<osrf_msg.value>>

\* the loop over msg_list: array_remove(0) gives null for an empty array
RECURSIVE RelayBody(_, _, _, _, _)
RelayBody(msg_list, thread, rif, sess, body_vec) ==
    IF msg_list = <<>> \/ Head(msg_list) = Null
    THEN [ok |-> TRUE, rif |-> rif, sess |-> sess, body |-> body_vec]
    ELSE LET m == Head(msg_list)
             rest == Tail(msg_list)
         IN  CASE m = "CONNECT" ->
                    RelayBody(rest, thread, rif + 1, sess, Append(body_vec, m))
               [] m = "REQUEST" ->
                    RelayBody(rest, thread, rif + 1, sess, Append(body_vec, m))
               [] m = "DISCONNECT" ->
                    RelayBody(rest, thread, rif, MapRemove(sess, thread),
                              Append(body_vec, m))
               [] OTHER ->
                    [ok |-> FALSE, rif |-> rif, sess |-> sess, body |-> body_vec]

\* send_to the router whatever the recipient
SendRelayedToRouter(tm, rcpt) ==
    BusSendTo(tm, RouterAddress(AddressDomain(BusAddress)))
SendRelayed(tm, rcpt) ==
    IF rcpt.router # Null THEN BusSendTo(tm, rcpt.router) ELSE BusSend(tm)

\* busOk: whether the push to the broker succeeds
relay_to_osrf(entry, rif, sess, busOk) ==
    LET f == entry.frame
        Err(r, s) == [ok |-> FALSE, rif |-> r, sess |-> s, sent |-> <<>>]
    IN  IF ~f.valid THEN Err(rif, sess)
        ELSE IF f.thread = Null THEN Err(rif, sess)
        ELSE IF ThreadLen(f.thread) > MAX_THREAD_SIZE THEN Err(rif, sess)
        ELSE IF f.service = Null THEN Err(rif, sess)
        ELSE LET rcpt == Recipient(sess, f.thread, f.service)
                 b == RelayBody(MsgList(f.osrf_msg), f.thread, rif, sess, <<>>)
                 tm == [to |-> rcpt.to, from |-> BusAddress,
                        thread |-> f.thread, body |-> b.body]
             IN  IF ~b.ok \/ ~busOk THEN Err(b.rif, b.sess)
                 ELSE [ok |-> TRUE, rif |-> b.rif, sess |-> b.sess,
                       sent |-> <<SendRelayed(tm, rcpt) @@ [src |-> entry]>>]

(***************************************************************************)
(* Session::relay_to_websocket                                             *)
(***************************************************************************)
\* the count left as it is
DecrementKept(rif) == rif
\* the decrement without its guard
DecrementUnguarded(rif) == rif - 1
\* if self.reqs_in_flight > 0 { self.reqs_in_flight -= 1; }
Decrement(rif) == IF rif > 0 THEN rif - 1 ELSE rif

\* BadRequest itself not taken as an error
IsErrorStatusStrict(code) == code > BadRequest
IsErrorStatus(code) == code >= BadRequest

RECURSIVE RelayStatuses(_, _, _, _, _)
RelayStatuses(body, tm, rif, sess, transport_error) ==
    IF body = <<>>
    THEN [rif |-> rif, sess |-> sess, transport_error |-> transport_error]
    ELSE LET m == Head(body)
             rest == Tail(body)
         IN  IF m.type # "STATUS"
             THEN RelayStatuses(rest, tm, rif, sess, transport_error)
             ELSE CASE m.code = StatusOk ->
                         RelayStatuses(rest, tm, Decrement(rif),
                                       MapInsert(sess, tm.thread, tm.from),
                                       transport_error)
                    [] m.code = StatusComplete ->
                         RelayStatuses(rest, tm, Decrement(rif), sess,
                                       transport_error)
                    [] IsErrorStatus(m.code) ->
                         RelayStatuses(rest, tm, Decrement(rif),
                                       MapRemove(sess, tm.thread), TRUE)
                    [] OTHER ->
                         RelayStatuses(rest, tm, rif, sess, transport_error)

\* the JSON object sent to the client; transport_error is a key only when set
WsReply(tm, transport_error) ==
    LET obj == [type |-> "Text", thread |-> tm.thread, osrf_msg |-> tm.body]
    IN  IF transport_error THEN obj @@ [transport_error |-> TRUE] ELSE obj

relay_to_websocket(tm, rif, sess) ==
    LET r == RelayStatuses(tm.body, tm, rif, sess, FALSE)
    IN  [rif |-> r.rif, sess |-> r.sess, msg |-> WsReply(tm, r.transport_error)]

(***************************************************************************)
(* The session: Session::run builds it and starts the three tasks.         *)
(***************************************************************************)
SessionInit ==
    /\ inbound = "running"
    /\ outbound = "running"
    /\ main = "recv"
    /\ chan = <<>>
    /\ request_queue = <<>>
    /\ reqs_in_flight = 0
    /\ osrf_sessions = EmptyMap
    /\ bus_sent = <<>>
    /\ ws_sent = <<>>
    /\ cur = Idle
    /\ dropped = FALSE

\* the receiving end of the channel is dropped when Session::run returns
MainGone == main \in {"closed", "error"}

\* messages in the channel, and the one the main task is handling
Unhandled == Len(chan) + (IF main = "queue" THEN 1 ELSE 0)

\* SessionInbound::run, one message read from the socket
SessionInbound_run(m) ==
    /\ inbound = "running"
    /\ IF MainGone
       THEN /\ inbound' = "ended"
            /\ chan' = chan
       ELSE /\ Unhandled < MaxChan
            /\ inbound' = inbound
            /\ chan' = Append(chan, [tag |-> "Inbound", msg |-> m])
    /\ UNCHANGED <<outbound, main, request_queue, reqs_in_flight, osrf_sessions,
                   bus_sent, ws_sent, cur, dropped, cvars, xvars>>

\* SessionInbound::run, the socket read fails: the client is gone
SessionInbound_break ==
    /\ inbound = "running"
    /\ inbound' = "ended"
    /\ UNCHANGED <<outbound, main, chan, request_queue, reqs_in_flight,
                   osrf_sessions, bus_sent, ws_sent, cur, dropped, cvars, xvars>>

\* SessionOutbound::run, recv gives a TransportMessage
SessionOutbound_run(tm) ==
    /\ outbound = "running"
    /\ IF MainGone
       THEN /\ outbound' = "ended"
            /\ chan' = chan
       ELSE /\ Unhandled < MaxChan
            /\ outbound' = outbound
            /\ chan' = Append(chan, [tag |-> "Outbound", tm |-> tm])
    /\ UNCHANGED <<inbound, main, request_queue, reqs_in_flight, osrf_sessions,
                   bus_sent, ws_sent, cur, dropped, cvars, xvars>>

\* SessionOutbound::run, recv fails
SessionOutbound_break ==
    /\ outbound = "running"
    /\ outbound' = "ended"
    /\ UNCHANGED <<inbound, main, chan, request_queue, reqs_in_flight,
                   osrf_sessions, bus_sent, ws_sent, cur, dropped, cvars, xvars>>

\* what the loop iteration started from
Snapshot(kind, msg) ==
    [kind |-> kind, msg |-> msg, rif0 |-> reqs_in_flight,
     qlen0 |-> Len(request_queue)]

\* Session::listen, an Inbound channel message
listen_inbound(wsOk) ==
    /\ main = "recv"
    /\ chan # <<>>
    /\ Head(chan).tag = "Inbound"
    /\ chan' = Tail(chan)
    /\ LET m == Head(chan).msg
           r == handle_inbound_message(m, request_queue, wsOk)
       IN  /\ request_queue' = r.queue
           /\ ws_sent' = r.sent
           /\ main' = IF ~r.ok THEN "error"
                      ELSE IF r.closing THEN "closed"
                      ELSE "queue"
           /\ dropped' = (dropped \/ (/\ m.type = "Text"
                                      /\ ~TooBig(m.len)
                                      /\ BacklogFull(request_queue)))
           /\ cur' = Snapshot(m.type, m)
    /\ bus_sent' = <<>>
    /\ UNCHANGED <<inbound, outbound, reqs_in_flight, osrf_sessions, cvars, xvars>>

\* Session::listen, an Outbound channel message: relay_to_websocket
listen_outbound(wsOk) ==
    /\ main = "recv"
    /\ chan # <<>>
    /\ Head(chan).tag = "Outbound"
    /\ chan' = Tail(chan)
    /\ LET r == relay_to_websocket(Head(chan).tm, reqs_in_flight, osrf_sessions)
       IN  /\ reqs_in_flight' = r.rif
           /\ osrf_sessions' = r.sess
           /\ ws_sent' = IF wsOk THEN <<r.msg>> ELSE <<>>
    /\ main' = IF wsOk THEN "queue" ELSE "error"
    /\ cur' = Snapshot("Reply", Head(chan).tm)
    /\ bus_sent' = <<>>
    /\ UNCHANGED <<inbound, outbound, request_queue, dropped,
                   cvars, xvars>>

\* Session::process_message_queue, one pass of the loop that relays a frame
process_message_queue_relay(busOk) ==
    /\ main = "queue"
    /\ CanRelay(reqs_in_flight)
    /\ request_queue # <<>>
    /\ LET r == relay_to_osrf(Head(request_queue), reqs_in_flight,
                              osrf_sessions, busOk)
       IN  /\ request_queue' = Tail(request_queue)
           /\ reqs_in_flight' = r.rif
           /\ osrf_sessions' = r.sess
           /\ bus_sent' = bus_sent \o r.sent
           /\ main' = IF r.ok THEN "queue" ELSE "error"
    /\ UNCHANGED <<inbound, outbound, chan, ws_sent, cur, dropped, cvars, xvars>>

\* Session::process_message_queue returns Ok: the loop iteration of listen ends
process_message_queue_return ==
    /\ main = "queue"
    /\ ~CanRelay(reqs_in_flight) \/ request_queue = <<>>
    /\ main' = "recv"
    /\ cur' = Idle
    /\ bus_sent' = <<>>
    /\ ws_sent' = <<>>
    /\ UNCHANGED <<inbound, outbound, chan, request_queue, reqs_in_flight,
                   osrf_sessions, dropped, cvars, xvars>>

\* no connection is offered to the server
NoServer ==
    /\ max_clients = 0
    /\ conn = <<>>
    /\ server = [pc |-> "accept", c |-> 0, active |-> 0]

(***************************************************************************)
(* The two bus handles of Session::run and the lists of the bus.           *)
(***************************************************************************)
\* Bus::new for the first handle of the session
osrf_sender == [address |-> BusAddress]
\* Bus::new for the second handle: an address of its own
Bus_new == [address |-> <<"client", "private.localhost", "2">>]
\* a set_address that is left out
set_address_keep(bus, address) == bus
set_address(bus, address) == [bus EXCEPT !.address = address]
osrf_receiver == set_address(Bus_new, osrf_sender.address)
Addresses == {osrf_sender.address, Bus_new.address}

\* Bus::recv pops the head of the list at the handle's address
Bus_recv(bus) ==
    [tm |-> Head(bus_list[bus.address]),
     list |-> [bus_list EXCEPT ![bus.address] = Tail(@)]]

NoBus == bus_list = [a \in Addresses |-> <<>>]

\* no HTTP gateway worker
NoGateway ==
    /\ partial_buffer = [some |-> FALSE, text |-> <<>>]
    /\ gw_pc = "off"
    /\ request = [parsed |-> FALSE, http_method |-> "", format |-> "fieldmapper"]
    /\ replies = <<>>
    /\ received = <<>>
    /\ response = [written |-> FALSE, leader |-> "", has_length |-> FALSE,
                   length |-> 0, body |-> <<>>]
    /\ sends = 0
    /\ handled = 0

\* no function is applied on its own
NoCall ==
    /\ arg = <<>>
    /\ ret = <<>>

\* no bus watcher
NoWatcher ==
    /\ broker = <<>>
    /\ watcher = <<>>
    /\ emitted = <<>>

Elsewhere ==
    /\ NoCall
    /\ NoWatcher

Init ==
    /\ SessionInit
    /\ NoServer
    /\ NoBus
    /\ NoGateway
    /\ Elsewhere

\* the main task
listen ==
    \/ \E wsOk \in BOOLEAN : listen_inbound(wsOk)
    \/ \E wsOk \in BOOLEAN : listen_outbound(wsOk)
    \/ \E busOk \in BOOLEAN : process_message_queue_relay(busOk)
    \/ process_message_queue_return

Next ==
    \/ \E m \in ClientMessages : SessionInbound_run(m)
    \/ \E tm \in Replies : SessionOutbound_run(tm)
    \/ listen

Spec == Init /\ [][Next]_vars

\* a worker answers: its TransportMessage is pushed to the list named by the
\* from of the request it answers, the address of osrf_sender
worker_reply(tm) ==
    /\ Len(bus_list[osrf_sender.address]) < MaxBus
    /\ bus_list' = [bus_list EXCEPT ![osrf_sender.address] = Append(@, tm)]
    /\ UNCHANGED <<svars, cvars, gvars, yvars>>

\* SessionOutbound::run, osrf_receiver.recv(-1, None) pops a TransportMessage
SessionOutbound_recv ==
    /\ outbound = "running"
    /\ bus_list[osrf_receiver.address] # <<>>
    /\ bus_list' = Bus_recv(osrf_receiver).list
    /\ IF MainGone
       THEN /\ outbound' = "ended"
            /\ chan' = chan
       ELSE /\ Unhandled < MaxChan
            /\ outbound' = outbound
            /\ chan' = Append(chan, [tag |-> "Outbound",
                                     tm |-> Bus_recv(osrf_receiver).tm])
    /\ UNCHANGED <<inbound, main, request_queue, reqs_in_flight, osrf_sessions,
                   bus_sent, ws_sent, cur, dropped, cvars, gvars, yvars>>

\* what the client and the workers send while the lists of the bus are watched
BusFrames ==
    { Text("T1", "svc", Array(<<"CONNECT">>), 64, TRUE),
      Text("T1", "svc", Array(<<"REQUEST", "REQUEST">>), 64, TRUE),
      [type |-> "Close"] }
BusReplies ==
    { Reply(WorkerW, "T1", <<Status(200)>>),
      Reply(WorkerW, "T1", <<Result, Status(205)>>) }

\* the session with the list of the bus its replies arrive in
BusNext ==
    \/ \E m \in BusFrames : SessionInbound_run(m)
    \/ \E tm \in BusReplies : worker_reply(tm)
    \/ SessionOutbound_recv
    \/ listen

BusSpec == Init /\ [][BusNext]_vars

\* the session with the ends of its two helper tasks
FairNext ==
    \/ Next
    \/ SessionInbound_break
    \/ SessionOutbound_break

\* The main task runs whenever it can.  The bus delivers a reply, or fails,
\* only if something is sent to the session's address: neither is fair.  The
\* client's connection is taken to end at some time.
FairSpec ==
    /\ Init
    /\ [][FairNext]_vars
    /\ WF_vars(listen)
    /\ WF_vars(SessionInbound_break)

\* the replies the workers give to relayed Connect and Request messages
Answers ==
    BusReplies \cup { Reply(WorkerW, "T1", <<Status(BadRequest)>>) }

\* replies the outbound task has put in the channel, not yet counted by main
Delivered == Len(SelectSeq(chan, LAMBDA e : e.tag = "Outbound"))

\* relayed Connect and Request messages no reply has been delivered for
Unanswered == reqs_in_flight - Delivered

\* SessionOutbound::run, recv gives the reply to a message that awaits one
worker_answers(tm) ==
    /\ Unanswered > 0
    /\ SessionOutbound_run(tm)

BacklogNext ==
    \/ \E m \in BusFrames : SessionInbound_run(m)
    \/ \E tm \in Answers : worker_answers(tm)
    \/ listen

\* The main task runs whenever it can, and every relayed Connect or Request
\* is answered.  The channel of the program has no bound, so the outbound
\* task's send never waits for the inbound task: the fairness is strong.
BacklogSpec ==
    /\ Init
    /\ [][BacklogNext]_vars
    /\ WF_vars(listen)
    /\ SF_vars(\E tm \in Answers : worker_answers(tm))

(***************************************************************************)
(* Server::run: the accept loop and the thread pool that runs the sessions *)
(***************************************************************************)
Conns == 1..MaxConns
Having(status) == {c \in Conns : conn[c] = status}
\* pool.active_count() and pool.queued_count()
active_count == Cardinality(Having("running"))
queued_count == Cardinality(Having("queued"))

\* if tcount >= self.max_clients
ServerFull(tcount, limit) == tcount >= limit

ServerInit ==
    /\ SessionInit
    /\ NoBus
    /\ NoGateway
    /\ Elsewhere
    /\ max_clients \in 0..MaxClientsCfg
    /\ conn = [c \in Conns |-> "waiting"]
    /\ server = [pc |-> "accept", c |-> 0, active |-> 0]

\* the next connection of the listener; connection.accept() may fail
Server_run_accept(ok) ==
    /\ server.pc = "accept"
    /\ Having("waiting") # {}
    /\ LET c == CHOOSE x \in Having("waiting") : \A y \in Having("waiting") : x <= y
       IN  IF ok
           THEN /\ conn' = [conn EXCEPT ![c] = "accepted"]
                /\ server' = [pc |-> "active", c |-> c, active |-> 0]
           ELSE /\ conn' = [conn EXCEPT ![c] = "failed"]
                /\ server' = server
    /\ UNCHANGED <<max_clients, svars, xvars>>

\* let tcount = pool.active_count() + ...: the first counter is read
Server_run_active_count ==
    /\ server.pc = "active"
    /\ server' = [server EXCEPT !.pc = "queued", !.active = active_count]
    /\ UNCHANGED <<max_clients, conn, svars, xvars>>

\* ... + pool.queued_count(): the second counter is read, then the connection
\* is shut down or its session is handed to the pool
Server_run_queued_count ==
    /\ server.pc = "queued"
    /\ conn' = [conn EXCEPT ![server.c] =
                  IF ServerFull(server.active + queued_count, max_clients)
                  THEN "refused" ELSE "queued"]
    /\ server' = [pc |-> "accept", c |-> 0, active |-> 0]
    /\ UNCHANGED <<max_clients, svars, xvars>>

\* a free thread of the pool takes the oldest queued job: Session::run starts
pool_execute_runs ==
    /\ Having("queued") # {}
    /\ active_count < MAX_WS_CLIENTS
    /\ LET c == CHOOSE x \in Having("queued") : \A y \in Having("queued") : x <= y
       IN  conn' = [conn EXCEPT ![c] = "running"]
    /\ UNCHANGED <<max_clients, server, svars, xvars>>

\* Session::run returns
Session_run_returns(c) ==
    /\ conn[c] = "running"
    /\ conn' = [conn EXCEPT ![c] = "done"]
    /\ UNCHANGED <<max_clients, server, svars, xvars>>

ServerNext ==
    \/ \E ok \in BOOLEAN : Server_run_accept(ok)
    \/ Server_run_active_count
    \/ Server_run_queued_count
    \/ pool_execute_runs
    \/ \E c \in Conns : Session_run_returns(c)

ServerSpec == ServerInit /\ [][ServerNext]_vars

(***************************************************************************)
(* The HTTP gateway (evergreen/src/bin/eg-http-gateway.rs).                *)
(*                                                                         *)
(* A text is a sequence of characters; a character is a one-character      *)
(* string, or U+00E9 for a character of two bytes in UTF-8.                *)
(***************************************************************************)
\* json::JsonValue
JNull == [t |-> "null", v |-> <<>>]
JStr(chars) == [t |-> "str", v |-> chars]
JNum(digits) == [t |-> "num", v |-> digits]
JArr(list) == [t |-> "arr", v |-> list]
\* an object is the sequence of its <<key, value>> entries
JObj(entries) == [t |-> "obj", v |-> entries]

Quote == "\""
Digits == {"0", "1", "2", "3", "4", "5", "6", "7", "8", "9"}
DigitOf(d) == CASE d = 0 -> "0" [] d = 1 -> "1" [] d = 2 -> "2" [] d = 3 -> "3"
                [] d = 4 -> "4" [] d = 5 -> "5" [] d = 6 -> "6" [] d = 7 -> "7"
                [] d = 8 -> "8" [] d = 9 -> "9"
RECURSIVE Decimal(_)
Decimal(n) == IF n < 10 THEN <<DigitOf(n)>>
              ELSE Decimal(n \div 10) \o <<DigitOf(n % 10)>>

\* JsonValue::dump
RECURSIVE dump(_), DumpList(_), DumpEntries(_)
dump(value) ==
    CASE value.t = "null" -> <<"n", "u", "l", "l">>
      [] value.t = "str" -> <<Quote>> \o value.v \o <<Quote>>
      [] value.t = "num" -> value.v
      [] value.t = "arr" -> <<"[">> \o DumpList(value.v) \o <<"]">>
      [] value.t = "obj" -> <<"{">> \o DumpEntries(value.v) \o <<"}">>
DumpList(list) ==
    IF Len(list) = 0 THEN <<>>
    ELSE dump(Head(list))
         \o (IF Len(list) > 1 THEN <<",">> \o DumpList(Tail(list)) ELSE <<>>)
DumpEntries(entries) ==
    IF Len(entries) = 0 THEN <<>>
    ELSE <<Quote>> \o Head(entries)[1] \o <<Quote, ":">> \o dump(Head(entries)[2])
         \o (IF Len(entries) > 1 THEN <<",">> \o DumpEntries(Tail(entries))
             ELSE <<>>)

\* json::parse of a text made of digits and brackets: a number, or an array
\* of nothing or of one such value
IsNumber(text) ==
    /\ Len(text) > 0
    /\ \A i \in DOMAIN text : text[i] \in Digits
    /\ Len(text) > 1 => text[1] # "0"
RECURSIVE json_parse(_)
json_parse(text) ==
    IF IsNumber(text) THEN [ok |-> TRUE, value |-> JNum(text)]
    ELSE IF Len(text) >= 2 /\ text[1] = "[" /\ text[Len(text)] = "]"
    THEN LET inner == SubSeq(text, 2, Len(text) - 1)
         IN  IF Len(inner) = 0 THEN [ok |-> TRUE, value |-> JArr(<<>>)]
             ELSE LET element == json_parse(inner)
                  IN  IF element.ok
                      THEN [ok |-> TRUE, value |-> JArr(<<element.value>>)]
                      ELSE [ok |-> FALSE, value |-> JNull]
    ELSE [ok |-> FALSE, value |-> JNull]

\* idl::Parser::unpack: a Fieldmapper-encoded object {"__c": class, "__p": [..]}
\* becomes the raw object of its fields (here a class with the one field id)
ClassKey == <<"_", "_", "c">>
PayloadKey == <<"_", "_", "p">>
IsFieldmapper(value) ==
    /\ value.t = "obj"
    /\ Len(value.v) = 2
    /\ value.v[1][1] = ClassKey
    /\ value.v[2][1] = PayloadKey
    /\ value.v[2][2].t = "arr"
    /\ Len(value.v[2][2].v) = 1
RECURSIVE idl_unpack(_)
idl_unpack(value) ==
    IF IsFieldmapper(value)
    THEN JObj(<< <<(<<"i", "d">>), idl_unpack(value.v[2][2].v[1])>> >>)
    ELSE IF value.t = "arr"
    THEN JArr([i \in DOMAIN value.v |-> idl_unpack(value.v[i])])
    ELSE value

\* GatewayHandler::scrub_nulls
IsNotNull(value) == value.t # "null"
EntryNotNull(entry) == entry[2].t # "null"
\* scrub_nulls that does not descend into the members it keeps
scrub_nulls_shallow(value) ==
    IF value.t = "obj" THEN JObj(SelectSeq(value.v, EntryNotNull))
    ELSE IF value.t = "arr" THEN JArr(SelectSeq(value.v, IsNotNull))
    ELSE value
RECURSIVE scrub_nulls(_)
scrub_nulls(value) ==
    IF value.t = "obj"
    THEN JObj(SelectSeq([i \in DOMAIN value.v |->
                            <<value.v[i][1], scrub_nulls(value.v[i][2])>>],
                        EntryNotNull))
    ELSE IF value.t = "arr"
    THEN JArr(SelectSeq([i \in DOMAIN value.v |-> scrub_nulls(value.v[i])],
                        IsNotNull))
    ELSE value

\* GatewayRequestFormat
Formats == {"fieldmapper", "raw", "rawslim"}
is_raw(format) == format \in {"raw", "rawslim"}

\* message::MessageStatus
StatusContinue == 100
StatusPartialComplete == 204
StatusPartial == 206

\* message::Payload::Result
ResultMsg(status, content) ==
    [type |-> "RESULT", status |-> status, content |-> content]

\* Option<String>
None == [some |-> FALSE, text |-> <<>>]
Some(text) == [some |-> TRUE, text |-> text]

\* the error strings of the gateway, each one character of the model
ErrorValue(message) == JStr(<<message>>)
\* message::Status::to_json_value
StatusValue(code) ==
    JObj(<< <<(<<"s", "t", "a", "t", "u", "s", "C", "o", "d", "e">>),
              JNum(Decimal(code))>> >>)

\* as_str() of the content, pushed to the buffer when it is a string
push_str(buf, content) == IF content.t = "str" THEN buf \o content.v ELSE buf

\* the format encoding of a reply value
FormatReply(format, content) ==
    IF is_raw(format)
    THEN IF format = "rawslim" THEN scrub_nulls(idl_unpack(content))
         ELSE idl_unpack(content)
    ELSE content

\* GatewayHandler::extract_responses, the loop over tm.body()
RECURSIVE ExtractBody(_, _, _, _, _)
ExtractBody(body, format, buf, out, complete) ==
    IF Len(body) = 0
    THEN [ok |-> TRUE, replies |-> out, complete |-> complete, buf |-> buf,
          err |-> JNull]
    ELSE LET resp == Head(body)
         IN  IF resp.type = "RESULT"
             THEN IF resp.status = StatusPartial
                  THEN ExtractBody(Tail(body), format,
                                   Some(push_str(buf.text, resp.content)),
                                   out, complete)
                  ELSE IF resp.status = StatusPartialComplete
                  THEN LET parsed == json_parse(push_str(buf.text, resp.content))
                       IN  IF parsed.ok
                           THEN ExtractBody(Tail(body), format, None,
                                    Append(out, FormatReply(format, parsed.value)),
                                    complete)
                           ELSE [ok |-> FALSE, replies |-> out,
                                 complete |-> complete, buf |-> None,
                                 err |-> ErrorValue("Error reconstituting partial message")]
                  ELSE ExtractBody(Tail(body), format, buf,
                           Append(out, FormatReply(format, resp.content)),
                           complete)
             ELSE IF resp.type = "STATUS"
             THEN IF resp.code = StatusComplete
                  THEN ExtractBody(Tail(body), format, buf, out, TRUE)
                  ELSE IF resp.code \in {StatusOk, StatusContinue}
                  THEN ExtractBody(Tail(body), format, buf, out, complete)
                  ELSE [ok |-> FALSE, replies |-> out, complete |-> complete,
                        buf |-> buf, err |-> StatusValue(resp.code)]
             ELSE ExtractBody(Tail(body), format, buf, out, complete)

extract_responses(format, tm, buf) == ExtractBody(tm.body, format, buf, <<>>, FALSE)

\* An HTTP request as the gateway reads it: the request line's method, whether
\* httparse accepts the headers, the Content-Length header and the bytes that
\* follow the headers, and the query pairs in the order they are written, in
\* the path or (in_body) in the bytes after the headers.
HttpRequest(method, headers_ok, content_length, body_len, in_body, query) ==
    [method |-> method, headers_ok |-> headers_ok,
     content_length |-> content_length, body_len |-> body_len,
     in_body |-> in_body, query |-> query]
Pair(k, v) == [k |-> k, v |-> v]
Query(format) ==
    <<Pair("service", "svc"), Pair("method", "m"), Pair("param", "json"),
      Pair("format", format)>>

HttpRequests ==
    { HttpRequest("GET", TRUE, 0, 0, FALSE, Query(f)) : f \in Formats }
    \cup
    { HttpRequest("HEAD", TRUE, 0, 0, FALSE, Query("fieldmapper")),
      HttpRequest("PUT", TRUE, 0, 0, FALSE, Query("fieldmapper")),
      HttpRequest("POST", TRUE, 9, 9, TRUE,
                  <<Pair("x", "1")>> \o Query("fieldmapper")),
      HttpRequest("POST", TRUE, 9, 9, TRUE, Query("fieldmapper")),
      HttpRequest("GET", TRUE, 0, 0, FALSE, <<Pair("service", "svc")>>),
      HttpRequest("GET", TRUE, 0, 0, FALSE, <<Pair("method", "m")>>),
      HttpRequest("GET", TRUE, 0, 0, FALSE,
                  <<Pair("service", "svc"), Pair("method", "m"),
                    Pair("param", "not json")>>),
      HttpRequest("GET", FALSE, 0, 0, FALSE, Query("fieldmapper")),
      HttpRequest("POST", TRUE, 9, 10, TRUE,
                  <<Pair("x", "1")>> \o Query("fieldmapper")) }

\* GatewayHandler::read_request: the method, the path and the body
read_request(http) ==
    IF ~http.headers_ok THEN [ok |-> FALSE]
    ELSE IF http.body_len = 0 /\ http.content_length = 0
    THEN [ok |-> TRUE, method |-> http.method, body |-> FALSE]
    ELSE IF http.body_len = http.content_length
    THEN [ok |-> TRUE, method |-> http.method, body |-> TRUE]
    ELSE [ok |-> FALSE]

\* the query pairs Url::parse finds: the body handed to parse_request is the
\* whole text read, headers included, so the key of the first pair of a body
\* starts with the request line and the headers
query_pairs(http, with_body) ==
    IF with_body
    THEN IF http.in_body /\ Len(http.query) > 0
         THEN <<Pair("headers " \o Head(http.query).k, Head(http.query).v)>>
              \o Tail(http.query)
         ELSE <<>>
    ELSE IF http.in_body THEN <<>> ELSE http.query

Values(pairs, key) ==
    SelectSeq(pairs, LAMBDA pair : pair.k = key)
LastOf(seq) == seq[Len(seq)]

\* GatewayHandler::parse_request
parse_request(http, with_body) ==
    LET pairs == query_pairs(http, with_body)
        params == Values(pairs, "param")
        formats == Values(pairs, "format")
    IN  IF \E i \in DOMAIN params : params[i].v # "json" THEN [ok |-> FALSE]
        ELSE IF Len(Values(pairs, "method")) = 0 THEN [ok |-> FALSE]
        ELSE IF Len(Values(pairs, "service")) = 0 THEN [ok |-> FALSE]
        ELSE [ok |-> TRUE,
              format |-> IF Len(formats) = 0 THEN "fieldmapper"
                         ELSE IF LastOf(formats).v \in {"raw", "rawslim"}
                         THEN LastOf(formats).v ELSE "fieldmapper",
              http_method |-> http.method]

\* ParsedGatewayRequest, or what is left of a request that was not parsed
Parsed(http) ==
    LET read == read_request(http)
    IN  IF ~read.ok
        THEN [parsed |-> FALSE, http_method |-> http.method, format |-> "fieldmapper"]
        ELSE LET req == parse_request(http, read.body)
             IN  IF ~req.ok
                 THEN [parsed |-> FALSE, http_method |-> http.method,
                       format |-> "fieldmapper"]
                 ELSE [parsed |-> TRUE, http_method |-> req.http_method,
                       format |-> req.format]
NoRequest == [parsed |-> FALSE, http_method |-> "", format |-> "fieldmapper"]

\* bytes of a character in UTF-8
Utf8Len(char) == IF char = "U+00E9" THEN 2 ELSE 1
\* a length that counts characters
chars_count(text) == Len(text)
\* data.as_bytes().len()
RECURSIVE as_bytes_len(_)
as_bytes_len(text) ==
    IF Len(text) = 0 THEN 0 ELSE Utf8Len(Head(text)) + as_bytes_len(Tail(text))

Leader200 == "HTTP/1.1 200 OK"
Leader400 == "HTTP/1.1 400 Bad Request"
Leader405 == "HTTP/1.1 405 Method Not Allowed"

\* nothing was written to the stream
NoResponse ==
    [written |-> FALSE, leader |-> "", has_length |-> FALSE, length |-> 0,
     body |-> <<>>]
\* a response that treats every method as GET
ResponseAsGet(http_method, leader, reply_values) ==
    [written |-> TRUE, leader |-> leader, has_length |-> TRUE,
     length |-> as_bytes_len(dump(JArr(reply_values))),
     body |-> dump(JArr(reply_values))]
\* a response that leaves the headers out for HEAD
ResponseHeadBare(http_method, leader, reply_values) ==
    IF http_method = "HEAD"
    THEN [written |-> TRUE, leader |-> leader, has_length |-> FALSE,
          length |-> 0, body |-> <<>>]
    ELSE ResponseAsGet(http_method, leader, reply_values)
\* handle_request: the response written for the replies or the error
Response(http_method, leader, reply_values) ==
    LET data == dump(JArr(reply_values))
        length == as_bytes_len(data)
    IN  CASE http_method = "HEAD" ->
               [written |-> TRUE, leader |-> leader, has_length |-> TRUE,
                length |-> length, body |-> <<>>]
          [] http_method \in {"GET", "POST"} ->
               [written |-> TRUE, leader |-> leader, has_length |-> TRUE,
                length |-> length, body |-> data]
          [] OTHER ->
               [written |-> TRUE, leader |-> Leader405, has_length |-> FALSE,
                length |-> 0, body |-> <<>>]

\* the replies of a relay that is lost are kept
RelayErrKept(collected, e) == Append(collected, e)
\* handle_request: Err(e) of relay_to_osrf becomes vec![e]
RelayErr(collected, e) == <<e>>
\* a timeout that gives up what was collected
TimeoutEmpty(collected) == <<>>
\* relay_to_osrf: None => return Ok(replies)
Timeout(collected) == collected
\* an append that starts over
AppendBatchOnly(collected, batch) == batch
\* replies.append(&mut batch)
AppendBatch(collected, batch) == collected \o batch

\* reply values and chunks
ValueAccent == JStr(<<"U+00E9">>)
ValueNulls == JArr(<<JNull, JNum(<<"1">>)>>)
ValueEncoded ==
    JObj(<< <<ClassKey, JStr(<<"a", "o", "u">>)>>,
            <<PayloadKey, JArr(<<JNum(<<"7">>)>>)>> >>)
Ok(content) == ResultMsg(StatusOk, content)
Partial(chunk) == ResultMsg(StatusPartial, JStr(chunk))
PartialComplete(chunk) == ResultMsg(StatusPartialComplete, JStr(chunk))

\* bodies of the TransportMessages that arrive at the worker's bus address
GatewayBodies ==
    { <<Ok(ValueAccent)>>,
      <<Ok(ValueNulls), Ok(ValueEncoded), Status(StatusComplete)>>,
      <<Status(StatusComplete)>>,
      <<Partial(<<"[">>)>>,
      <<Partial(<<"1">>), PartialComplete(<<"]">>)>>,
      <<PartialComplete(<<"1">>), Status(StatusComplete)>>,
      <<Partial(<<"1">>), Ok(ValueAccent)>>,
      <<Ok(ValueAccent), Status(500)>>,
      <<Status(StatusContinue), Partial(<<"1">>)>> }

\* what Bus.recv(OSRF_RELAY_TIMEOUT, None) returns
RecvSome(body) == [kind |-> "Some", body |-> body]
RecvNone == [kind |-> "None", body |-> <<>>]
RecvErr == [kind |-> "Err", body |-> <<>>]

\* worker_start of a new handler
GatewayInit ==
    /\ SessionInit
    /\ NoServer
    /\ NoBus
    /\ Elsewhere
    /\ partial_buffer = None
    /\ gw_pc = "idle"
    /\ request = NoRequest
    /\ replies = <<>>
    /\ received = <<>>
    /\ response = NoResponse
    /\ sends = 0
    /\ handled = 0

\* handle_request returns Err from read_request or parse_request; process
\* shuts the stream down
handle_request_unparsed(http) ==
    /\ gw_pc = "idle"
    /\ handled < MaxRequests
    /\ ~Parsed(http).parsed
    /\ handled' = handled + 1
    /\ request' = Parsed(http)
    /\ replies' = <<>>
    /\ received' = <<>>
    /\ sends' = 0
    /\ response' = NoResponse
    /\ UNCHANGED <<gw_pc, partial_buffer, svars, cvars, bvars, yvars>>

\* handle_request up to the first Bus.recv: the request is parsed and
\* relay_to_osrf sends it to the router
relay_to_osrf_send(http, busOk) ==
    /\ gw_pc = "idle"
    /\ handled < MaxRequests
    /\ Parsed(http).parsed
    /\ handled' = handled + 1
    /\ request' = Parsed(http)
    /\ replies' = <<>>
    /\ received' = <<>>
    /\ sends' = 1
    /\ IF busOk
       THEN /\ gw_pc' = "recv"
            /\ response' = NoResponse
       ELSE /\ gw_pc' = "idle"
            /\ response' = Response(Parsed(http).http_method, Leader400,
                                    RelayErr(<<>>, ErrorValue("send error")))
    /\ UNCHANGED <<partial_buffer, svars, cvars, bvars, yvars>>

\* relay_to_osrf, one pass of the loop, and the rest of handle_request when
\* the loop ends
relay_to_osrf_recv(r) ==
    /\ gw_pc = "recv"
    /\ r.kind = "Some" => Len(received) < MaxRecv
    /\ received' = Append(received, r)
    /\ CASE r.kind = "None" ->
              /\ replies' = Timeout(replies)
              /\ partial_buffer' = partial_buffer
              /\ gw_pc' = "idle"
              /\ response' = Response(request.http_method, Leader200,
                                      Timeout(replies))
         [] r.kind = "Err" ->
              /\ replies' = replies
              /\ partial_buffer' = partial_buffer
              /\ gw_pc' = "idle"
              /\ response' = Response(request.http_method, Leader400,
                                 RelayErr(replies, ErrorValue("recv error")))
         [] r.kind = "Some" ->
              LET x == extract_responses(request.format, r, partial_buffer)
              IN  /\ partial_buffer' = x.buf
                  /\ IF ~x.ok
                     THEN /\ replies' = replies
                          /\ gw_pc' = "idle"
                          /\ response' = Response(request.http_method, Leader400,
                                                  RelayErr(replies, x.err))
                     ELSE /\ replies' = AppendBatch(replies, x.replies)
                          /\ IF x.complete
                             THEN /\ gw_pc' = "idle"
                                  /\ response' =
                                       Response(request.http_method, Leader200,
                                                AppendBatch(replies, x.replies))
                             ELSE /\ gw_pc' = "recv"
                                  /\ response' = response
    /\ UNCHANGED <<request, sends, handled, svars, cvars, bvars, yvars>>

GatewayNext ==
    \/ \E http \in HttpRequests : handle_request_unparsed(http)
    \/ \E http \in HttpRequests, busOk \in BOOLEAN : relay_to_osrf_send(http, busOk)
    \/ \E body \in GatewayBodies : relay_to_osrf_recv(RecvSome(body))
    \/ relay_to_osrf_recv(RecvNone)
    \/ relay_to_osrf_recv(RecvErr)

GatewaySpec == GatewayInit /\ [][GatewayNext]_vars

\* The thread of a request: relay_to_osrf draws a new one for every request,
\* here the number of the request.
ThreadOf(n) == n

\* a TransportMessage the service pushed in reply to the request of a thread
RecvFrom(body, thread) == RecvSome(body) @@ [thread |-> thread]

\* the request whose replies the service had not pushed when recv timed out
LateRequest ==
    HttpRequest("GET", TRUE, 0, 0, FALSE, Query("fieldmapper"))

\* The worker has answered its first request after a timeout of recv: the
\* replies of the service are still to come, at the bus address the worker
\* keeps from worker_start on.
LateInit ==
    /\ SessionInit
    /\ NoServer
    /\ NoBus
    /\ Elsewhere
    /\ partial_buffer = None
    /\ gw_pc = "idle"
    /\ request = Parsed(LateRequest)
    /\ replies = <<>>
    /\ received = <<RecvNone>>
    /\ response = Response("GET", Leader200, Timeout(<<>>))
    /\ sends = 1
    /\ handled = 1

\* the worker's next requests; recv pops what is first in the list of the
\* worker's address, a reply to the request at hand or to the first one
LateNext ==
    \/ \E http \in HttpRequests : handle_request_unparsed(http)
    \/ \E http \in HttpRequests, busOk \in BOOLEAN : relay_to_osrf_send(http, busOk)
    \/ \E body \in GatewayBodies, n \in {1, handled} :
          relay_to_osrf_recv(RecvFrom(body, ThreadOf(n)))
    \/ relay_to_osrf_recv(RecvNone)
    \/ relay_to_osrf_recv(RecvErr)

LateSpec == LateInit /\ [][LateNext]_vars

(***************************************************************************)
(* Properties of the session                                               *)
(***************************************************************************)
Max(a, b) == IF a >= b THEN a ELSE b
Count(seq, S) == Cardinality({i \in DOMAIN seq : seq[i] \in S})
Last(seq) == seq[Len(seq)]
\* a map with the entry k -> v, and one with no entry for k
With(m, k, v) == [t \in (DOMAIN m) \cup {k} |-> IF t = k THEN v ELSE m[t]]
Without(m, k) == [t \in (DOMAIN m) \ {k} |-> m[t]]

\* the step of the main task that takes a message of the given tag
Takes(tag) == main = "recv" /\ main' # "recv" /\ Head(chan).tag = tag
TakesText == Takes("Inbound") /\ Head(chan).msg.type = "Text"
\* the step of process_message_queue that pops a frame
Pops == main = "queue" /\ request_queue' # request_queue
\* ... and pushes its TransportMessage to the bus
Relays == Pops /\ Len(bus_sent') = Len(bus_sent) + 1

\* C1: in every reachable state reqs_in_flight <= max_parallel
C1_InFlightWithinLimit == reqs_in_flight <= max_parallel

\* C2: a Text frame below MAX_MESSAGE_SIZE that arrives while reqs_in_flight
\* equals max_parallel and the backlog has room is appended to request_queue,
\* and nothing is pushed to the bus, nor popped, in that loop iteration
C2_EnqueuedNotSent ==
    /\ [][(/\ TakesText
           /\ reqs_in_flight = max_parallel
           /\ Head(chan).msg.len < MAX_MESSAGE_SIZE
           /\ Len(request_queue) < MAX_BACKLOG_SIZE)
          => /\ request_queue' = Append(request_queue, [frame |-> Head(chan).msg])
             /\ bus_sent' = <<>>]_vars
    /\ [][(main = "queue" /\ cur.kind = "Text" /\ cur.rif0 = max_parallel)
          => /\ request_queue' = request_queue
             /\ bus_sent' = <<>>
             /\ main' \in {"queue", "recv"}]_vars

C2_Witness ==
    /\ main = "queue"
    /\ cur.kind = "Text"
    /\ cur.rif0 = max_parallel
    /\ cur.msg.len < MAX_MESSAGE_SIZE
    /\ cur.qlen0 < MAX_BACKLOG_SIZE
    /\ Len(request_queue) = cur.qlen0 + 1
    /\ Last(request_queue).frame = cur.msg
    /\ bus_sent = <<>>

\* C3: with MAX_BACKLOG_SIZE frames queued a new Text frame is discarded:
\* request_queue is unchanged by the whole loop iteration and never longer
\* than MAX_BACKLOG_SIZE, the loop goes on, and a Ping taken after a drop is
\* answered with a Pong (the session ends only if that socket write fails)
C3_BacklogDrop ==
    /\ [](Len(request_queue) <= MAX_BACKLOG_SIZE)
    /\ [][(TakesText /\ Len(request_queue) >= MAX_BACKLOG_SIZE)
          => request_queue' = request_queue /\ main' = "queue"]_vars
    /\ [][(main = "queue" /\ cur.kind = "Text" /\ cur.qlen0 >= MAX_BACKLOG_SIZE)
          => request_queue' = request_queue /\ main' \in {"queue", "recv"}]_vars
    /\ [][(Takes("Inbound") /\ Head(chan).msg.type = "Ping" /\ dropped)
          => \/ /\ ws_sent' = <<[type |-> "Pong", data |-> Head(chan).msg.data]>>
                /\ main' = "queue"
             \/ /\ ws_sent' = <<>>
                /\ main' = "error"]_vars

C3_Witness ==
    /\ dropped
    /\ main = "queue"
    /\ cur.kind = "Ping"
    /\ ws_sent = <<[type |-> "Pong", data |-> cur.msg.data]>>
    /\ Len(request_queue) = MAX_BACKLOG_SIZE

\* C4: a relayed frame for thread T goes to the address cached for T, on that
\* address's queue, or else to ServiceAddress(service) on the queue of
\* RouterAddress(sender domain); the first frame on T relayed after a reply
\* <<Status(Ok)>> from a worker on T goes directly to that worker
C4_Routing ==
    /\ [][Relays =>
            LET f == Head(request_queue).frame
                e == Last(bus_sent')
            IN  /\ e.tm.thread = f.thread
                /\ e.tm.from = BusAddress
                /\ IF f.thread \in DOMAIN osrf_sessions
                   THEN /\ e.tm.to = osrf_sessions[f.thread]
                        /\ e.queue = osrf_sessions[f.thread]
                   ELSE /\ e.tm.to = ServiceAddress(f.service)
                        /\ e.queue = RouterAddress(AddressDomain(BusAddress))]_vars
    /\ [](  (cur.kind = "Reply" /\ cur.msg.body = <<Status(StatusOk)>>)
         => \A i \in DOMAIN bus_sent :
               (/\ bus_sent[i].tm.thread = cur.msg.thread
                /\ \A j \in 1..(i - 1) : bus_sent[j].tm.thread # cur.msg.thread)
               => /\ bus_sent[i].tm.to = cur.msg.from
                  /\ bus_sent[i].queue = cur.msg.from)

C4_Witness ==
    /\ cur.kind = "Reply"
    /\ cur.msg = Reply(WorkerW, "T1", <<Status(StatusOk)>>)
    /\ bus_sent # <<>>
    /\ bus_sent[1].tm.thread = "T1"
    /\ bus_sent[1].tm.to = WorkerW
    /\ bus_sent[1].queue = WorkerW
    /\ "REQUEST" \in {bus_sent[1].tm.body[i] : i \in DOMAIN bus_sent[1].tm.body}

IsStatus(m, codes) == m.type = "STATUS" /\ m.code \in codes
ErrorCodes == {c \in 0..599 : c >= BadRequest}
HasError(body) == \E i \in DOMAIN body : IsStatus(body[i], ErrorCodes)
\* a Status(Ok) comes after the last error status of the body
OkAfterError(body) ==
    \E i \in DOMAIN body :
        /\ IsStatus(body[i], {StatusOk})
        /\ \E j \in 1..(i - 1) : IsStatus(body[j], ErrorCodes)
        /\ \A j \in (i + 1)..Len(body) : ~IsStatus(body[j], ErrorCodes)

TransportErrorSet(frame) ==
    "transport_error" \in DOMAIN frame /\ frame["transport_error"] = TRUE

\* C5, as claimed: a reply with an error status gives a frame with
\* transport_error: true and leaves no cache entry for its thread; a reply
\* with none gives a frame without the key
C5_ErrorEvicts ==
    (cur.kind = "Reply") =>
        /\ HasError(cur.msg.body) => cur.msg.thread \notin DOMAIN osrf_sessions
        /\ ws_sent # <<>> =>
              IF HasError(cur.msg.body)
              THEN TransportErrorSet(ws_sent[1])
              ELSE "transport_error" \notin DOMAIN ws_sent[1]

\* C5, amended: the cache entry is gone unless a Status(Ok) follows the last
\* error status in the same TransportMessage, which puts thread -> from back
C5_ErrorEvictsUnlessOkFollows ==
    (cur.kind = "Reply") =>
        /\ (HasError(cur.msg.body) /\ ~OkAfterError(cur.msg.body))
              => cur.msg.thread \notin DOMAIN osrf_sessions
        /\ ws_sent # <<>> =>
              /\ ws_sent[1].thread = cur.msg.thread
              /\ ws_sent[1].osrf_msg = cur.msg.body
              /\ IF HasError(cur.msg.body)
                 THEN TransportErrorSet(ws_sent[1])
                 ELSE "transport_error" \notin DOMAIN ws_sent[1]

C5_Witness ==
    /\ cur.kind = "Reply"
    /\ cur.msg.body = <<Status(StatusOk), Status(404)>>
    /\ ws_sent # <<>>
    /\ TransportErrorSet(ws_sent[1])
    /\ cur.msg.thread \notin DOMAIN osrf_sessions

\* C6: reqs_in_flight goes up by one per Connect or Request put in a relayed
\* TransportMessage, down by one per Status Ok, Complete or error received,
\* stopping at 0, and nothing else changes it
C6_Accounting ==
    /\ [](reqs_in_flight >= 0)
    /\ [][Relays =>
            reqs_in_flight' = reqs_in_flight
                + Count(Last(bus_sent').tm.body, {"CONNECT", "REQUEST"})]_vars
    /\ [][Takes("Outbound") =>
            LET body == Head(chan).tm.body
                k == Cardinality({i \in DOMAIN body :
                        IsStatus(body[i], {StatusOk, StatusComplete} \cup ErrorCodes)})
            IN  reqs_in_flight' = Max(0, reqs_in_flight - k)]_vars
    /\ [][(Takes("Inbound") \/ (main = "queue" /\ main' = "recv"))
            => reqs_in_flight' = reqs_in_flight]_vars

C6_Witness ==
    /\ cur.kind = "Reply"
    /\ cur.rif0 = 1
    /\ cur.msg.body = <<Status(StatusComplete), Status(StatusComplete)>>
    /\ main = "queue"
    /\ bus_sent = <<>>
    /\ reqs_in_flight = 0

\* the last Ok or error status of a reply body, 0 if it has none
LastOkOrError(body) ==
    LET idx == {i \in DOMAIN body : IsStatus(body[i], {StatusOk} \cup ErrorCodes)}
    IN  IF idx = {} THEN 0 ELSE CHOOSE i \in idx : \A j \in idx : j <= i

\* C7: osrf_sessions starts empty; handling a reply from A on T whose last Ok
\* or error status is Ok leaves T -> A, one whose last is an error leaves no
\* entry for T; relaying a frame on T removes T's entry exactly when a
\* Disconnect is in the TransportMessage; nothing else changes the cache
C7_SessionCache ==
    /\ DOMAIN osrf_sessions = {}
    /\ [][Takes("Outbound") =>
            LET tm == Head(chan).tm
                i == LastOkOrError(tm.body)
            IN  osrf_sessions' =
                   IF i = 0 THEN osrf_sessions
                   ELSE IF IsStatus(tm.body[i], {StatusOk})
                        THEN With(osrf_sessions, tm.thread, tm.from)
                        ELSE Without(osrf_sessions, tm.thread)]_vars
    /\ [][Relays =>
            LET tm == Last(bus_sent').tm
            IN  osrf_sessions' =
                   IF Count(tm.body, {"DISCONNECT"}) > 0
                   THEN Without(osrf_sessions, tm.thread)
                   ELSE osrf_sessions]_vars
    /\ [][(Takes("Inbound") \/ (main = "queue" /\ main' = "recv"))
            => osrf_sessions' = osrf_sessions]_vars

C7_Witness ==
    /\ main = "queue"
    /\ DOMAIN osrf_sessions = {"T2"}
    /\ bus_sent # <<>>
    /\ Last(bus_sent).tm.thread = "T1"
    /\ Last(bus_sent).tm.to = WorkerW
    /\ Last(bus_sent).tm.body = <<"DISCONNECT">>

\* C8: once the main task has taken a Close frame nothing more is relayed
\* and the inbound and the outbound task end too
C8_CloseEndsAllTasks ==
    /\ [][main = "closed" =>
            /\ main' = "closed"
            /\ bus_sent' = bus_sent
            /\ request_queue' = request_queue]_vars
    /\ (main = "closed") ~> (inbound = "ended" /\ outbound = "ended")

\* C9: no more than max_clients sessions run at a time; a connection taken
\* while max_clients sessions run or wait in the pool is refused, and a
\* refused connection never gets a session
C9_ClientLimit ==
    /\ [](active_count <= max_clients)
    /\ [][(server.pc = "queued" /\ server'.pc = "accept"
           /\ active_count + queued_count >= max_clients)
          => conn'[server.c] = "refused"]_vars
    /\ [][\A c \in DOMAIN conn :
            conn[c] = "refused" => conn'[c] = "refused"]_vars

\* C10: a Text frame of MAX_MESSAGE_SIZE bytes or more is never in
\* request_queue and never the source of a TransportMessage, and taking it
\* leaves the main loop running
C10_OversizeDropped ==
    /\ [](\A i \in DOMAIN request_queue :
             request_queue[i].frame.len < MAX_MESSAGE_SIZE)
    /\ [](\A i \in DOMAIN bus_sent :
             bus_sent[i].src.frame.len < MAX_MESSAGE_SIZE)
    /\ [][(TakesText /\ Head(chan).msg.len >= MAX_MESSAGE_SIZE)
          => request_queue' = request_queue /\ main' = "queue"]_vars

C10_Witness ==
    /\ main = "queue"
    /\ cur.kind = "Text"
    /\ cur.msg.len >= MAX_MESSAGE_SIZE
    /\ Len(request_queue) = cur.qlen0

\* C11: the two bus handles of a session have one address; a TransportMessage
\* leaves a list of the bus only by the outbound task's recv on the list of
\* that address, which hands it to the main task's channel (or ends the
\* outbound task when the main task is gone); the main task pops nothing
C11_OneConsumer ==
    /\ [](osrf_receiver.address = osrf_sender.address)
    /\ [][\A a \in Addresses :
            bus_list'[a] # bus_list[a] /\ Len(bus_list'[a]) <= Len(bus_list[a])
            => /\ a = osrf_sender.address
               /\ bus_list'[a] = Tail(bus_list[a])
               /\ outbound = "running"
               /\ main' = main /\ cur' = cur /\ ws_sent' = ws_sent
               /\ \/ chan' = Append(chan, [tag |-> "Outbound",
                                           tm |-> Head(bus_list[a])])
                  \/ MainGone /\ outbound' = "ended"]_vars
    /\ [][(Len(chan') > Len(chan) /\ chan'[Len(chan')].tag = "Outbound")
          => bus_list' # bus_list]_vars
    /\ [][(main = "recv" /\ main' # "recv" /\ cur'.kind = "Reply")
          => Head(chan) = [tag |-> "Outbound", tm |-> cur'.msg]]_vars

C11_Witness ==
    /\ cur.kind = "Reply"
    /\ ws_sent # <<>>
    /\ bus_list[osrf_sender.address] # <<>>
    /\ bus_sent # <<>>

(***************************************************************************)
(* Functions applied on their own: arg is the input, ret the result.       *)
(***************************************************************************)
Pending == [kind |-> "Pending"]
\* the variables of the other programs
nonf == <<svars, cvars, bvars, gvars, wvars>>
NoProgram ==
    /\ SessionInit
    /\ NoServer
    /\ NoBus
    /\ NoGateway
    /\ NoWatcher

(***************************************************************************)
(* GatewayHandler::read_request, byte by byte.  A stream is the header     *)
(* block, the bytes after it and the places where the socket reads cut it. *)
(***************************************************************************)
HeaderBlock == <<"h1", "h2">>
BodyBytes == <<"b1", "b2", "b3", "b4", "b5">>
Streams ==
    { [headers_ok |-> ok, content_length |-> n, after |-> after, cuts |-> cuts] :
        ok \in {TRUE}, n \in 0..MaxBody,
        after \in { SubSeq(BodyBytes, 1, k) : k \in 0..MaxBody },
        cuts \in SUBSET (1..(Len(HeaderBlock) + MaxBody - 1)) }
    \cup
    { [headers_ok |-> FALSE, content_length |-> 0, after |-> <<>>, cuts |-> {}],
      [headers_ok |-> TRUE, content_length |-> 3,
       after |-> <<"b1", "NUL", "b3">>, cuts |-> {}] }
\* the streams whose cuts are inside the stream
ReadInputs ==
    { st \in Streams :
        \A c \in st.cuts : c < Len(HeaderBlock) + Len(st.after) }

\* what each stream.read() puts in the buffer
RECURSIVE Reads(_, _, _)
Reads(bytes, cuts, from) ==
    IF from > Len(bytes) THEN <<>>
    ELSE LET ends == {c \in cuts : c >= from} \cup {Len(bytes)}
             to == CHOOSE c \in ends : \A d \in ends : c <= d
         IN  <<SubSeq(bytes, from, to)>> \o Reads(bytes, cuts, to + 1)

\* for c in buffer.iter(): the bytes of the buffer up to its first zero
RECURSIVE UntilNul(_)
UntilNul(buffer) ==
    IF Len(buffer) = 0 \/ Head(buffer) = "NUL" THEN <<>>
    ELSE <<Head(buffer)>> \o UntilNul(Tail(buffer))

\* httparse::Request::parse of what was read so far
httparse(stream, chars) ==
    IF ~stream.headers_ok /\ Len(chars) > 0 THEN "Err"
    ELSE IF Len(chars) < Len(HeaderBlock) THEN "Partial"
    ELSE "Complete"

\* GatewayHandler::read_request, the loop
RECURSIVE ReadLoop(_, _, _, _)
ReadLoop(stream, reads, chars0, parsed0) ==
    IF Len(reads) = 0 THEN [kind |-> "Blocked", has_body |-> FALSE, body |-> <<>>]
    ELSE LET chars == chars0 \o UntilNul(Head(reads))
             res == IF parsed0 THEN "Complete" ELSE httparse(stream, chars)
             header_byte_count == Len(HeaderBlock)
             content_length == stream.content_length
         IN  IF res = "Err"
             THEN [kind |-> "Err", has_body |-> FALSE, body |-> <<>>]
             ELSE IF res = "Partial"
             THEN ReadLoop(stream, Tail(reads), chars, FALSE)
             ELSE IF Len(chars) = header_byte_count
             THEN IF content_length = 0
                  THEN [kind |-> "Ok", has_body |-> FALSE, body |-> <<>>]
                  ELSE ReadLoop(stream, Tail(reads), chars, TRUE)
             ELSE IF Len(chars) - header_byte_count = content_length
             THEN [kind |-> "Ok", has_body |-> TRUE, body |-> chars]
             ELSE IF Len(chars) - header_byte_count > content_length
             THEN [kind |-> "Err", has_body |-> FALSE, body |-> <<>>]
             ELSE ReadLoop(stream, Tail(reads), chars, TRUE)

read_stream(stream) ==
    ReadLoop(stream, Reads(HeaderBlock \o stream.after, stream.cuts, 1), <<>>, FALSE)

ReadInit ==
    /\ NoProgram
    /\ arg \in ReadInputs
    /\ ret = Pending

read_request_returns ==
    /\ ret = Pending
    /\ ret' = read_stream(arg)
    /\ UNCHANGED <<arg, nonf>>

ReadSpec == ReadInit /\ [][read_request_returns]_vars

(***************************************************************************)
(* GatewayHandler::read_request, one pass of its loop at a time, for a     *)
(* client that closes the connection at some point of its stream: every    *)
(* stream.read() after that returns Ok(0) and leaves the buffer zeroed.    *)
(***************************************************************************)
\* the loop's variables: chars, parsed_req.is_some(), the next read of the
\* stream and the reads that returned 0 bytes
Reading(chars, parsed, next, zero) ==
    [kind |-> "Reading", chars |-> chars, parsed |-> parsed, next |-> next,
     zero |-> zero]
ReadsOf(stream) == Reads(HeaderBlock \o stream.after, stream.cuts, 1)

\* one pass of the loop with what stream.read() put in the buffer
read_request_pass(stream, buffer, st, next, zero) ==
    LET chars == st.chars \o UntilNul(buffer)
        res == IF st.parsed THEN "Complete" ELSE httparse(stream, chars)
        header_byte_count == Len(HeaderBlock)
        content_length == stream.content_length
    IN  IF res = "Err"
        THEN [kind |-> "Err", has_body |-> FALSE, body |-> <<>>]
        ELSE IF res = "Partial"
        THEN Reading(chars, FALSE, next, zero)
        ELSE IF Len(chars) = header_byte_count
        THEN IF content_length = 0
             THEN [kind |-> "Ok", has_body |-> FALSE, body |-> <<>>]
             ELSE Reading(chars, TRUE, next, zero)
        ELSE IF Len(chars) - header_byte_count = content_length
        THEN [kind |-> "Ok", has_body |-> TRUE, body |-> chars]
        ELSE IF Len(chars) - header_byte_count > content_length
        THEN [kind |-> "Err", has_body |-> FALSE, body |-> <<>>]
        ELSE Reading(chars, TRUE, next, zero)

\* the client has closed the connection and everything it sent was read
AtEof == ret.kind = "Reading" /\ ret.next > Len(ReadsOf(arg))
Closed(stream) == Len(ReadsOf(stream)) + 1

EofInit ==
    /\ NoProgram
    /\ arg \in ReadInputs
    /\ ret = Reading(<<>>, FALSE, 1, 0)

\* a pass whose read returns bytes the client sent
read_request_read ==
    /\ ret.kind = "Reading"
    /\ ~AtEof
    /\ ret' = read_request_pass(arg, ReadsOf(arg)[ret.next], ret,
                                ret.next + 1, ret.zero)
    /\ UNCHANGED <<arg, nonf>>

\* a pass whose read returns 0 bytes: the client has closed the connection,
\* having sent the whole stream or a part of it
read_request_read_zero ==
    /\ ret.kind = "Reading"
    /\ ret.zero < MaxZeroReads
    /\ ret' = read_request_pass(arg, <<>>, ret, Closed(arg), ret.zero + 1)
    /\ UNCHANGED <<arg, nonf>>

EofNext ==
    \/ read_request_read
    \/ read_request_read_zero

EofSpec == EofInit /\ [][EofNext]_vars

(***************************************************************************)
(* GatewayHandler::scrub_nulls applied to JSON values of bounded width,    *)
(* nested two containers deep.                                             *)
(***************************************************************************)
KeyNames == <<"k1", "k2", "k3", "k4">>
Lists(values) ==
    UNION { [1..n -> values] : n \in 0..MaxWidth }
Objects(values) ==
    { [i \in DOMAIN list |-> <<KeyNames[i], list[i]>>] : list \in Lists(values) }
Containers(values) ==
    { JArr(list) : list \in Lists(values) } \cup { JObj(entries) : entries \in Objects(values) }
Leaves == {JNull, JStr(<<"a">>)}
Shallow(leaves) == leaves \cup Containers(leaves)
JsonValues(leaves) ==
    Shallow(leaves) \cup Containers(Shallow(leaves))
        \cup {JNum(<<"1">>), JArr(<<JNull, JNum(<<"1">>), JStr(<<"a">>)>>)}

ScrubInit ==
    /\ NoProgram
    /\ arg \in JsonValues(Leaves)
    /\ ret = Pending

scrub_nulls_returns ==
    /\ ret = Pending
    /\ ret' = scrub_nulls(arg)
    /\ UNCHANGED <<arg, nonf>>

ScrubSpec == ScrubInit /\ [][scrub_nulls_returns]_vars

(***************************************************************************)
(* log_request of both gateways: the access-log line of an API call.       *)
(***************************************************************************)
\* str::starts_with
starts_with_whole(text, prefix) == text = prefix
RECURSIVE starts_with(_, _)
starts_with(text, prefix) ==
    IF Len(prefix) = 0 THEN TRUE
    ELSE IF Len(text) = 0 THEN FALSE
    ELSE Head(text) = Head(prefix) /\ starts_with(Tail(text), Tail(prefix))

\* .iter().map(|p| p.dump()).collect::<Vec<_>>().join(", ")
RECURSIVE join_dumped(_)
join_dumped(params) ==
    IF Len(params) = 0 THEN <<>>
    ELSE IF Len(params) = 1 THEN dump(params[1])
    ELSE dump(params[1]) \o <<",", " ">> \o join_dumped(Tail(params))

Redacted == <<"**PARAMS REDACTED**">>
\* log_protect().iter().filter(starts_with).next().is_none(), then unwrap_or
log_params(method, params, log_protect) ==
    IF \A i \in DOMAIN log_protect : ~starts_with(method, log_protect[i])
    THEN join_dumped(params)
    ELSE Redacted

\* format!("ACT:[{}:{}] {} {} {}", ...)
ActLine(address, xid, service, method, params) ==
    <<"ACT:[">> \o address \o <<":">> \o xid \o <<"]", " ">> \o service
        \o <<" ">> \o method \o <<" ">> \o params

ClientIp == <<"ip">>
LogTrace == <<"xid">>
Service == <<"svc">>
NoLine == [ok |-> FALSE, line |-> <<>>]
\* GatewayHandler::log_request: the method is known to be there
GatewayHandler_log_request(req, log_protect) ==
    [ok |-> TRUE,
     line |-> ActLine(ClientIp, LogTrace, Service, req.method,
                      log_params(req.method, req.params, log_protect))]
\* Session::log_request: an error when the Request has no Method payload
Session_log_request(msg, log_protect) ==
    IF ~msg.has_method THEN NoLine
    ELSE [ok |-> TRUE,
          line |-> ActLine(ClientIp, LogTrace, Service, msg.method,
                           log_params(msg.method, msg.params, log_protect))]

MethodNames == {<<"a", ".", "b">>, <<"a">>, <<"c">>}
LogProtects == {<<>>, <<<<"a", ".">>>>, <<<<"c">>, <<"a">>>>}
ParamValues == {JStr(<<"p">>), JNum(<<"1">>)}
ParamLists == UNION { [1..n -> ParamValues] : n \in 0..MaxParams }
ApiCalls ==
    { [has_method |-> TRUE, method |-> m, params |-> p] :
        m \in MethodNames, p \in ParamLists }
\* a Request whose payload is not a Method
BareRequest == [has_method |-> FALSE, method |-> <<>>, params |-> <<>>]
LogInputs ==
    { [gateway |-> "http", log_protect |-> lp, calls |-> <<a, b>>] :
        lp \in LogProtects, a \in ApiCalls, b \in ApiCalls }
    \cup
    { [gateway |-> "ws", log_protect |-> lp, calls |-> <<a, b>>] :
        lp \in LogProtects, a \in ApiCalls \cup {BareRequest}, b \in ApiCalls }

LogInit ==
    /\ NoProgram
    /\ arg \in LogInputs
    /\ ret = Pending

log_request_returns ==
    /\ ret = Pending
    /\ ret' = [i \in DOMAIN arg.calls |->
                 IF arg.gateway = "http"
                 THEN GatewayHandler_log_request(arg.calls[i], arg.log_protect)
                 ELSE Session_log_request(arg.calls[i], arg.log_protect)]
    /\ UNCHANGED <<arg, nonf>>

LogSpec == LogInit /\ [][log_request_returns]_vars

(***************************************************************************)
(* buswatch: BusWatch::watch and main.  The broker holds lists under keys; *)
(* a key is <<prefix, name>> and exists while its list is not empty.       *)
(***************************************************************************)
DEFAULT_KEY_EXPIRE_SECS == 1800
KeyA == <<"opensrf:", "a">>
KeyB == <<"opensrf:", "b">>
KeyX == <<"other:", "x">>
KeyOrder == <<KeyA, KeyB, KeyX>>
Keys == {KeyOrder[i] : i \in DOMAIN KeyOrder}
NoTtl == -1
NoKey == -2
SomeTtl == 42

\* the broker's answers
Bus_keys(b, prefix) ==
    LET Matches(key) == b.lists[key].len > 0 /\ key[1] = prefix
    IN  SelectSeq(KeyOrder, Matches)
Bus_llen(b, key) == b.lists[key].len
Bus_lrange(b, key) == IF b.lists[key].len > 0 THEN <<<<key, "next">>>> ELSE <<>>
Bus_ttl(b, key) == b.lists[key].ttl
Bus_set_key_timeout(b, key, secs) ==
    IF b.lists[key].len > 0 THEN [b EXCEPT !.lists[key].ttl = secs] ELSE b

\* the environment's OSRF_BUSWATCH_TTL
EnvValues ==
    {[set |-> FALSE, parsed |-> FALSE, v |-> 0],
     [set |-> TRUE, parsed |-> FALSE, v |-> 0],
     [set |-> TRUE, parsed |-> TRUE, v |-> 7]}
\* main: the ttl of the watcher
main_ttl(env) ==
    IF env.set /\ env.parsed THEN env.v ELSE DEFAULT_KEY_EXPIRE_SECS

Absent == [has_count |-> FALSE, count |-> 0, has_next |-> FALSE,
           has_ttl |-> FALSE, ttl |-> 0]
NoStats == [key \in Keys |-> Absent]
\* the log: how many lines were written, and the last of them
NoLines == [count |-> 0, last |-> [time |-> 0, stats |-> NoStats]]
\* BusWatch::new, then main's override of ttl
BusWatch_new(env) ==
    [pc |-> "sleep", keys |-> <<>>, i |-> 0, stats |-> NoStats,
     ttl |-> main_ttl(env), env |-> env, connections |-> 1, tick |-> 0,
     calls |-> {}]

BrokerLists ==
    { l \in [Keys -> [len : 0..MaxLen, ttl : {NoKey, NoTtl, SomeTtl}]] :
        /\ \A key \in Keys : (l[key].len = 0) <=> (l[key].ttl = NoKey)
        /\ l[KeyX] = [len |-> 1, ttl |-> NoTtl] }
Brokers == { [lists |-> l, changes |-> 0] : l \in BrokerLists }

WatchInit ==
    /\ SessionInit
    /\ NoServer
    /\ NoBus
    /\ NoGateway
    /\ NoCall
    /\ broker \in Brokers
    /\ \E env \in EnvValues : watcher = BusWatch_new(env)
    /\ emitted = NoLines

\* the variables of the other programs
nonw == <<svars, cvars, bvars, gvars, fvars>>

\* ttl == -1
IsStaleAlways(ttl) == TRUE
IsStale(ttl) == ttl = NoTtl

\* the end of the for loop's body: the next key, or the line
EmitsEveryKey(w) == TRUE
Emits(w) == w.i = Len(w.keys)
\* a key after which watch gives up
AfterKeyReturns(w) ==
    [w EXCEPT !.pc = "returned", !.keys = <<>>, !.i = 0, !.stats = NoStats]
AfterKey(w) ==
    IF w.i < Len(w.keys) THEN [w EXCEPT !.pc = "llen", !.i = w.i + 1]
    ELSE [w EXCEPT !.pc = "sleep"]
Line(w) == [time |-> w.tick, stats |-> w.stats]
Emitted(w, log) ==
    IF Emits(w) THEN [count |-> log.count + 1, last |-> Line(w)] ELSE log

\* return true: obj and keys go out of scope
Returned(w) ==
    [w EXCEPT !.pc = "returned", !.keys = <<>>, !.i = 0, !.stats = NoStats]

\* thread::sleep, then self.bus.keys("opensrf:*")
watch_keys ==
    /\ watcher.pc = "sleep"
    /\ watcher.tick < MaxTicks
    /\ \E ok \in BOOLEAN :
        LET w == [watcher EXCEPT !.tick = watcher.tick + 1, !.calls = {}]
            keys == Bus_keys(broker, "opensrf:")
        IN  watcher' =
                IF ~ok THEN Returned(w)
                ELSE IF Len(keys) = 0 THEN [w EXCEPT !.keys = keys, !.i = 0]
                ELSE [w EXCEPT !.keys = keys, !.i = 1, !.stats = NoStats,
                               !.pc = "llen"]
    /\ UNCHANGED <<broker, emitted, nonw>>

\* self.bus.llen(key)
watch_llen ==
    /\ watcher.pc = "llen"
    /\ \E ok \in BOOLEAN :
        LET key == watcher.keys[watcher.i]
            l == Bus_llen(broker, key)
        IN  watcher' =
                IF ~ok THEN Returned(watcher)
                ELSE IF l > 0
                THEN [watcher EXCEPT !.stats[key].has_count = TRUE,
                                     !.stats[key].count = l, !.pc = "lrange"]
                ELSE [watcher EXCEPT !.pc = "ttl"]
    /\ UNCHANGED <<broker, emitted, nonw>>

\* self.bus.lrange(key, 0, 1)
watch_lrange ==
    /\ watcher.pc = "lrange"
    /\ \E ok \in BOOLEAN :
        LET key == watcher.keys[watcher.i]
            list == Bus_lrange(broker, key)
        IN  watcher' =
                IF ok /\ Len(list) > 0
                THEN [watcher EXCEPT !.stats[key].has_next = TRUE, !.pc = "ttl"]
                ELSE [watcher EXCEPT !.pc = "ttl"]
    /\ UNCHANGED <<broker, emitted, nonw>>

\* self.bus.ttl(key)
watch_ttl ==
    /\ watcher.pc = "ttl"
    /\ \E ok \in BOOLEAN :
        LET key == watcher.keys[watcher.i]
            ttl == Bus_ttl(broker, key)
            w == [watcher EXCEPT !.stats[key].has_ttl = TRUE,
                                 !.stats[key].ttl = ttl]
        IN  IF ~ok
            THEN /\ watcher' = AfterKey(watcher)
                 /\ emitted' = Emitted(watcher, emitted)
            ELSE IF IsStale(ttl)
            THEN /\ watcher' = [w EXCEPT !.pc = "set_key_timeout"]
                 /\ emitted' = emitted
            ELSE /\ watcher' = AfterKey(w)
                 /\ emitted' = Emitted(w, emitted)
    /\ UNCHANGED <<broker, nonw>>

\* self.bus.set_key_timeout(key, self.ttl)
watch_set_key_timeout ==
    /\ watcher.pc = "set_key_timeout"
    /\ \E ok \in BOOLEAN :
        LET key == watcher.keys[watcher.i]
            w == [watcher EXCEPT !.calls = watcher.calls \cup {<<key, watcher.ttl>>}]
        IN  IF ~ok
            THEN /\ watcher' = Returned(w)
                 /\ UNCHANGED <<broker, emitted>>
            ELSE /\ watcher' = AfterKey(w)
                 /\ broker' = Bus_set_key_timeout(broker, key, watcher.ttl)
                 /\ emitted' = Emitted(w, emitted)
    /\ UNCHANGED nonw

\* main: watch() returned true, watch() is called again
main_restart ==
    /\ watcher.pc = "returned"
    /\ watcher' = [watcher EXCEPT !.pc = "sleep"]
    /\ UNCHANGED <<broker, emitted, nonw>>

\* a client or a service pushes to a list
broker_push ==
    /\ broker.changes < MaxChanges
    /\ \E key \in {KeyA, KeyB} :
        /\ broker.lists[key].len < MaxLen
        /\ broker' = [broker EXCEPT
                        !.changes = @ + 1,
                        !.lists[key].len = @ + 1,
                        !.lists[key].ttl = IF broker.lists[key].len = 0 THEN NoTtl ELSE @]
    /\ UNCHANGED <<watcher, emitted, nonw>>

\* a client or a service pops from a list; the last pop deletes the key
broker_pop ==
    /\ broker.changes < MaxChanges
    /\ \E key \in {KeyA, KeyB} :
        /\ broker.lists[key].len > 0
        /\ broker' = [broker EXCEPT
                        !.changes = @ + 1,
                        !.lists[key].len = @ - 1,
                        !.lists[key].ttl = IF broker.lists[key].len = 1 THEN NoKey ELSE @]
    /\ UNCHANGED <<watcher, emitted, nonw>>

WatchNext ==
    \/ watch_keys
    \/ watch_llen
    \/ watch_lrange
    \/ watch_ttl
    \/ watch_set_key_timeout
    \/ main_restart
    \/ broker_push
    \/ broker_pop

WatchSpec == WatchInit /\ [][WatchNext]_vars

(***************************************************************************)
(* The SIP2 server: Session::handle_checkin and the two checkin variants.  *)
(* arg holds the account's settings, ret the place of the handler, the     *)
(* calls it has made and what they returned.                               *)
(***************************************************************************)
Textcodes == {"SUCCESS", "ROUTE_ITEM", "COPY_ALERT_MESSAGE"}
NoEvent == ""
NoResult == [ok |-> FALSE, textcode |-> NoEvent, kind |-> "none"]

Settings ==
    [use_native_checkin : BOOLEAN,
     checkin_override_all : BOOLEAN,
     checkin_override : SUBSET Textcodes,
     checkin_block_on_checked_out : BOOLEAN]

\* the place in handle_checkin, the override flag of the attempt at hand,
\* the attempts started, the calls made, the event and the result
Handler(pc, ovride, attempts, log, circ, evt, out) ==
    [pc |-> pc, ovride |-> ovride, attempts |-> attempts, log |-> log,
     circ |-> circ, evt |-> evt, out |-> out]

CheckinInit ==
    /\ NoProgram
    /\ arg \in Settings
    /\ ret = Handler("handle_checkin", FALSE, 0, <<>>, "", NoEvent, NoResult)

Step(pc, entry) ==
    [ret EXCEPT !.pc = pc, !.log = Append(ret.log, entry)]
Fails == [ret EXCEPT !.pc = "Err"]

\* if !ovride && checkin_override.contains(evt.textcode())
WillRetryAlways(ovride, textcode, checkin_override) ==
    textcode \in checkin_override
WillRetry(ovride, textcode, checkin_override) ==
    ~ovride /\ textcode \in checkin_override

\* match result { Ok(()) => commit, Err(err) => rollback }
AfterCheckinCommits(circ) == "commit"
AfterCheckin(circ) == IF circ = "Ok" THEN "commit" ELSE "rollback"

\* the CheckinResult of an event
CheckinResult(textcode) ==
    [ok |-> textcode \in {"SUCCESS", "NO_CHANGE", "ROUTE_ITEM"},
     textcode |-> textcode, kind |-> "checkin"]

\* handle_checkin up to its call of checkin: the item is not found, the
\* checkin is blocked, a call fails, or the checkin starts
handle_checkin ==
    /\ ret.pc = "handle_checkin"
    /\ \E way \in {"Err", "not_found", "blocked", "checkin"} :
        /\ way = "blocked" => arg.checkin_block_on_checked_out
        /\ ret' = CASE way = "Err" -> Fails
                    [] way = "not_found" ->
                         [ret EXCEPT !.pc = "Ok",
                                     !.out = [NoResult EXCEPT !.kind = "not_found"]]
                    [] way = "blocked" ->
                         [ret EXCEPT !.pc = "Ok",
                                     !.out = [NoResult EXCEPT !.kind = "blocked"]]
                    [] OTHER ->
                         [ret EXCEPT !.pc = "checkin",
                                     !.ovride = arg.checkin_override_all]
    /\ UNCHANGED <<arg, nonf>>

\* Session::checkin and the start of the variant it calls, up to the
\* backend call
Session_checkin ==
    /\ ret.pc = "checkin"
    /\ ret.attempts < MaxAttempts
    /\ \E ok \in BOOLEAN :
        LET r == [ret EXCEPT !.attempts = ret.attempts + 1,
                             !.log = Append(ret.log, "checkin"),
                             !.circ = "", !.evt = NoEvent]
        IN  ret' = IF ~ok THEN [r EXCEPT !.pc = "Err"]
                   ELSE IF arg.use_native_checkin THEN [r EXCEPT !.pc = "begin"]
                   ELSE [r EXCEPT !.pc = "send_recv_one"]
    /\ UNCHANGED <<arg, nonf>>

\* checkin_api: send_recv_one and EgEvent::parse
checkin_api ==
    /\ ret.pc = "send_recv_one"
    /\ \E textcode \in Textcodes \cup {NoEvent} :
        ret' = IF textcode = NoEvent THEN Fails
               ELSE [ret EXCEPT !.pc = "event", !.evt = textcode]
    /\ UNCHANGED <<arg, nonf>>

\* checkin_native: circulator.begin()?
Circulator_begin ==
    /\ ret.pc = "begin"
    /\ \E ok \in BOOLEAN :
        ret' = IF ok THEN Step("circulator.checkin", "begin") ELSE Fails
    /\ UNCHANGED <<arg, nonf>>

\* checkin_native: let result = circulator.checkin()
Circulator_checkin ==
    /\ ret.pc = "circulator.checkin"
    /\ \E circ \in {"Ok", "Err"}, textcode \in Textcodes \cup {NoEvent} :
        /\ circ = "Err" => textcode # NoEvent
        /\ ret' = [ret EXCEPT !.pc = AfterCheckin(circ), !.circ = circ,
                              !.evt = textcode]
    /\ UNCHANGED <<arg, nonf>>

\* checkin_native: circulator.commit()? and the first of the events
Circulator_commit ==
    /\ ret.pc = "commit"
    /\ \E ok \in BOOLEAN :
        ret' = IF ok /\ ret.evt # NoEvent
               THEN Step("event", "commit")
               ELSE Step("Err", "commit")
    /\ UNCHANGED <<arg, nonf>>

\* checkin_native: circulator.rollback()? and err.event_or_default()
Circulator_rollback ==
    /\ ret.pc = "rollback"
    /\ \E ok \in BOOLEAN :
        ret' = IF ok THEN Step("event", "rollback") ELSE Step("Err", "rollback")
    /\ UNCHANGED <<arg, nonf>>

\* both variants: return self.checkin(.., true), or go on to the result
override_retry ==
    /\ ret.pc = "event"
    /\ ret' = IF WillRetry(ret.ovride, ret.evt, arg.checkin_override)
              THEN [Step("checkin", "retry") EXCEPT !.ovride = TRUE]
              ELSE [ret EXCEPT !.pc = "result"]
    /\ UNCHANGED <<arg, nonf>>

\* both variants: the CheckinResult is built from the event
build_result ==
    /\ ret.pc = "result"
    /\ \E ok \in BOOLEAN :
        ret' = IF ok
               THEN [Step("Ok", "result") EXCEPT !.out = CheckinResult(ret.evt)]
               ELSE Step("Err", "result")
    /\ UNCHANGED <<arg, nonf>>

CheckinNext ==
    \/ handle_checkin
    \/ Session_checkin
    \/ checkin_api
    \/ Circulator_begin
    \/ Circulator_checkin
    \/ Circulator_commit
    \/ Circulator_rollback
    \/ override_retry
    \/ build_result

\* the handler runs on: every call it makes returns
CheckinSpec ==
    /\ CheckinInit
    /\ [][CheckinNext]_vars
    /\ WF_vars(CheckinNext)

(***************************************************************************)
(* One dequeued Text frame: the session after listen has queued the frame, *)
(* for frames of every shape relay_to_osrf tells apart.                    *)
(***************************************************************************)
RelayFrames ==
    { Text("T1", "svc", osrf_msg, 64, TRUE) :
        osrf_msg \in { Single(Null), Array(<<>>), Array(<<Null, "REQUEST">>),
                       Array(<<"REQUEST", Null, "STATUS">>), Array(<<"CONNECT">>),
                       Single("REQUEST"), Array(<<"REQUEST", "DISCONNECT">>),
                       Array(<<"REQUEST", "STATUS">>), Array(<<"BAD">>),
                       Single("STATUS"), Array(<<"DISCONNECT", "BAD">>) } }
    \cup
    { Text("T1", "svc", Array(<<"REQUEST">>), 64, FALSE),
      Text(Null, "svc", Array(<<"REQUEST">>), 64, TRUE),
      Text("TLONG", "svc", Array(<<"REQUEST">>), 64, TRUE),
      Text("T1", Null, Array(<<"REQUEST">>), 64, TRUE) }

RelayInit ==
    /\ inbound = "running"
    /\ outbound = "running"
    /\ main = "queue"
    /\ chan = <<>>
    /\ reqs_in_flight \in {0, 1}
    /\ osrf_sessions \in {EmptyMap, MapInsert(EmptyMap, "T1", WorkerW)}
    /\ \E f \in RelayFrames :
        /\ request_queue = <<[frame |-> f]>>
        /\ cur = [kind |-> "Text", msg |-> f, rif0 |-> reqs_in_flight, qlen0 |-> 0]
    /\ bus_sent = <<>>
    /\ ws_sent = <<>>
    /\ dropped = FALSE
    /\ NoServer
    /\ NoBus
    /\ NoGateway
    /\ Elsewhere

RelayNext ==
    \/ \E busOk \in BOOLEAN : process_message_queue_relay(busOk)
    \/ process_message_queue_return

RelaySpec == RelayInit /\ [][RelayNext]_vars

(***************************************************************************)
(* Properties of the HTTP gateway                                          *)
(***************************************************************************)
\* the sub-messages of the TransportMessages received for this request
RECURSIVE Flatten(_)
Flatten(recvs) ==
    IF Len(recvs) = 0 THEN <<>> ELSE Head(recvs).body \o Flatten(Tail(recvs))
\* ... without the Ok and Continue statuses
IsKeepReading(sub) ==
    sub.type = "STATUS" /\ sub.code \in {StatusOk, StatusContinue}
IsSignificant(sub) == ~IsKeepReading(sub)
Replied == SelectSeq(Flatten(received), IsSignificant)
IsComplete(sub) == sub.type = "STATUS" /\ sub.code = StatusComplete
IsErrorSub(sub) ==
    sub.type = "STATUS" /\ sub.code \notin {StatusOk, StatusContinue, StatusComplete}
IsValue(sub) ==
    sub.type = "RESULT" /\ sub.status \notin {StatusPartial, StatusPartialComplete}
IsPartial(sub) == sub.type = "RESULT" /\ sub.status = StatusPartial
IsPartialComplete(sub) == sub.type = "RESULT" /\ sub.status = StatusPartialComplete
Front(seq) == SubSeq(seq, 1, Len(seq) - 1)
RECURSIVE Chunks(_)
Chunks(subs) ==
    IF Len(subs) = 0 THEN <<>> ELSE Head(subs).content.v \o Chunks(Tail(subs))
Contents(subs) == [i \in DOMAIN subs |-> subs[i].content]
Formatted(format, values) ==
    [i \in DOMAIN values |-> FormatReply(format, values[i])]
RECURSIVE ByteCount(_)
ByteCount(text) ==
    IF Len(text) = 0 THEN 0
    ELSE (IF Head(text) = "U+00E9" THEN 2 ELSE 1) + ByteCount(Tail(text))

\* the worker has written the response of a parsed GET or POST request
AnsweredGetPost ==
    /\ gw_pc = "idle"
    /\ request.parsed
    /\ request.http_method \in {"GET", "POST"}
    /\ response.written
\* the replies were values r1..rn and then Status(Complete)
ValuesThenComplete ==
    /\ Len(Replied) > 0
    /\ IsComplete(Replied[Len(Replied)])
    /\ \A i \in 1..(Len(Replied) - 1) : IsValue(Replied[i])
\* nothing is received after the TransportMessage that holds Status(Complete)
NoRecvAfterComplete ==
    \A i \in DOMAIN received :
        (\E j \in DOMAIN received[i].body : IsComplete(received[i].body[j]))
        => i = Len(received) /\ gw_pc = "idle"

\* C12: (as stated) replies r1..rn and then Status(Complete) give a 200
\* response whose body is the JSON array [r1,...,rn], and nothing is
\* received after the TransportMessage with Status(Complete)
C12_Aggregation ==
    /\ NoRecvAfterComplete
    /\ (AnsweredGetPost /\ ValuesThenComplete)
       => /\ response.leader = Leader200
          /\ response.body = dump(JArr(Contents(Front(Replied))))

\* C12: (amended) ... whose body is the JSON array of r1..rn in arrival order,
\* each once, as they are for format fieldmapper and in their format encoding
\* (unpacked, and for rawslim without nulls) for raw and rawslim
C12_AggregationFormatted ==
    /\ NoRecvAfterComplete
    /\ (AnsweredGetPost /\ ValuesThenComplete)
       => /\ response.leader = Leader200
          /\ request.format = "fieldmapper"
             => response.body = dump(JArr(Contents(Front(Replied))))
          /\ response.body =
               dump(JArr(Formatted(request.format, Contents(Front(Replied)))))

C12_Witness ==
    /\ AnsweredGetPost
    /\ ValuesThenComplete
    /\ Len(received) = 2
    /\ Len(Replied) = 4
    /\ request.format = "rawslim"
    /\ response.leader = Leader200

\* C13: replies Partial(c1) .. Partial(ck-1), PartialComplete(ck) and then
\* Status(Complete) give one reply value, the value the concatenation c1..ck
\* parses to
C13_PartialReassembly ==
    (/\ AnsweredGetPost
     /\ Len(Replied) >= 2
     /\ IsComplete(Replied[Len(Replied)])
     /\ IsPartialComplete(Replied[Len(Replied) - 1])
     /\ \A i \in 1..(Len(Replied) - 2) : IsPartial(Replied[i])
     /\ json_parse(Chunks(Front(Replied))).ok)
    => /\ response.leader = Leader200
       /\ response.body =
            dump(JArr(<<FormatReply(request.format,
                                    json_parse(Chunks(Front(Replied))).value)>>))

\* C14: after a TransportMessage whose last sub-message is a Result that is
\* neither Partial nor PartialComplete the partial buffer is empty
C14_BufferCleared ==
    (/\ Len(received) > 0
     /\ received[Len(received)].kind = "Some"
     /\ IsValue(received[Len(received)].body[Len(received[Len(received)].body)]))
    => Len(partial_buffer.text) = 0

\* C15: the partial buffer is empty whenever the worker takes a request
C15_BufferEmptyAtStart ==
    [][handled' = handled + 1 => Len(partial_buffer.text) = 0]_vars

\* C16: a parsed request whose method is not GET, POST or HEAD is answered
\* with 405 Method Not Allowed, whatever the relay returned
C16_MethodNotAllowed ==
    (/\ gw_pc = "idle"
     /\ request.parsed
     /\ request.http_method \notin {"GET", "POST", "HEAD"}
     /\ handled > 0)
    => /\ response.written
       /\ response.leader = Leader405

C16_Witness ==
    /\ gw_pc = "idle"
    /\ request.parsed
    /\ request.http_method = "PUT"
    /\ \E i \in DOMAIN Replied : IsErrorSub(Replied[i])
    /\ response.leader = Leader405

\* C17: a request that cannot be read or parsed is answered with 400
C17_BadRequest ==
    (gw_pc = "idle" /\ handled > 0 /\ ~request.parsed)
    => /\ response.written
       /\ response.leader = Leader400

\* the relay of this request failed: the send, a recv, a Status that is not
\* Ok, Continue or Complete, or (first TransportMessage of a new worker) chunks
\* that do not parse
RelayFailed ==
    \/ sends = 1 /\ Len(received) = 0
    \/ Len(received) > 0 /\ received[Len(received)].kind = "Err"
    \/ \E i \in DOMAIN Replied : IsErrorSub(Replied[i])
    \/ /\ handled = 1
       /\ Len(received) = 1
       /\ Len(Replied) > 0
       /\ IsPartialComplete(Replied[Len(Replied)])
       /\ \A i \in 1..(Len(Replied) - 1) : IsPartial(Replied[i])
       /\ ~json_parse(Chunks(Replied)).ok
ErrorValues ==
    { ErrorValue("send error"), ErrorValue("recv error"),
      ErrorValue("Error reconstituting partial message"), StatusValue(500) }

\* C18: when the relay fails the GET or POST response is 400, its body is a
\* JSON array of one value, the error, and the request was sent once
C18_RelayFailure ==
    (AnsweredGetPost /\ RelayFailed)
    => /\ response.leader = Leader400
       /\ \E e \in ErrorValues : response.body = dump(JArr(<<e>>))
       /\ sends = 1

C18_Witness ==
    /\ AnsweredGetPost
    /\ Len(received) = 2
    /\ IsValue(received[1].body[1])
    /\ IsErrorSub(Replied[Len(Replied)])
    /\ response.body = dump(JArr(<<StatusValue(500)>>))

\* a recv of this request timed out
TimedOut == Len(received) > 0 /\ received[Len(received)].kind = "None"

\* C19: (as stated) after a timeout the body is the empty array
C19_TimeoutEmpty ==
    (AnsweredGetPost /\ TimedOut) => response.body = dump(JArr(<<>>))

\* C19: (amended) after a timeout the response is 200 and its body is the
\* array of the values collected before the timeout, empty when there are none
C19_TimeoutCollected ==
    (AnsweredGetPost /\ TimedOut)
    => /\ response.leader = Leader200
       /\ (\A i \in DOMAIN Replied : IsValue(Replied[i]))
          => response.body =
               dump(JArr(Formatted(request.format, Contents(Replied))))

C19_Witness ==
    /\ AnsweredGetPost
    /\ TimedOut
    /\ Len(received) = 2
    /\ Len(Replied) = 1
    /\ IsValue(Replied[1])
    /\ response.body # dump(JArr(<<>>))

\* C20: the Content-Length of a GET or POST response is the number of bytes
\* of its body
C20_ContentLength ==
    (/\ response.written
     /\ request.http_method \in {"GET", "POST"})
    => /\ response.has_length
       /\ response.length = ByteCount(response.body)
       /\ response.leader \in {Leader200, Leader400}

C20_Witness ==
    /\ AnsweredGetPost
    /\ response.leader = Leader200
    /\ \E i \in DOMAIN response.body : response.body[i] = "U+00E9"
    /\ response.length = Len(response.body) + 1

\* the relay failed in a way the history of the request shows
FailedInHistory ==
    \/ sends = 1 /\ Len(received) = 0
    \/ Len(received) > 0 /\ received[Len(received)].kind = "Err"
    \/ \E i \in DOMAIN Replied : IsErrorSub(Replied[i])

\* C21: a HEAD response has the status line and the headers a GET response
\* has for the same relay outcome (Content-Length is the byte length of the
\* body GET would carry) and no body
C21_HeadLikeGet ==
    (/\ gw_pc = "idle"
     /\ handled > 0
     /\ request.parsed
     /\ request.http_method = "HEAD")
    => /\ response.written
       /\ response.body = <<>>
       /\ response.has_length
       /\ response.leader \in {Leader200, Leader400}
       /\ FailedInHistory => response.leader = Leader400
       /\ response.leader = Leader200
          => response.length = ByteCount(dump(JArr(replies)))
       /\ response.leader = Leader400
          => \E e \in ErrorValues :
                response.length = ByteCount(dump(JArr(<<e>>)))

C21_Witness ==
    /\ gw_pc = "idle"
    /\ request.parsed
    /\ request.http_method = "HEAD"
    /\ response.leader = Leader200
    /\ Len(replies) = 3
    /\ response.length > 2
    /\ response.body = <<>>

\* C22: read_request returns the n bytes that follow the header block as the
\* body when n = Content-Length bytes follow (no body when n = 0 and nothing
\* follows), and an error when more than n bytes follow, wherever the reads
\* cut the stream
C22_ReadBody ==
    (ret # Pending /\ arg.headers_ok /\ "NUL" \notin {arg.after[i] : i \in DOMAIN arg.after})
    => /\ (Len(arg.after) = arg.content_length /\ arg.content_length > 0)
          => ret.kind = "Ok" /\ ret.has_body /\ ret.body = arg.after
       /\ (Len(arg.after) = 0 /\ arg.content_length = 0)
          => ret.kind = "Ok" /\ ~ret.has_body
       /\ Len(arg.after) > arg.content_length => ret.kind = "Err"

\* the members of a container, whatever its kind
Members(value) ==
    IF value.t = "obj" THEN [i \in DOMAIN value.v |-> value.v[i][2]]
    ELSE IF value.t = "arr" THEN value.v
    ELSE <<>>
MemberKey(value, i) == IF value.t = "obj" THEN value.v[i][1] ELSE ""
\* how many of the first i members are not null
Rank(list, i) == Cardinality({ j \in 1..i : list[j].t # "null" })
\* every node that is not null, with the path to it: at each step the key
\* and the place among the siblings that are not null
RECURSIVE Nodes(_, _)
Nodes(value, path) ==
    IF value.t = "null" THEN {}
    ELSE IF value.t \in {"obj", "arr"}
    THEN {<<path, [t |-> value.t, v |-> <<>>]>>}
         \cup UNION { Nodes(Members(value)[i],
                            Append(path, <<Rank(Members(value), i), MemberKey(value, i)>>)) :
                      i \in DOMAIN Members(value) }
    ELSE {<<path, value>>}
RECURSIVE HasNullInside(_)
HasNullInside(value) ==
    \E i \in DOMAIN Members(value) :
        Members(value)[i].t = "null" \/ HasNullInside(Members(value)[i])

\* C23: scrub_nulls removes exactly the null leaves at every depth, keeps every
\* other value and the order of the survivors, keeps containers that become
\* empty, and returns a value that is no null, object or array unchanged
C23_ScrubNulls ==
    ret # Pending
    => /\ ~HasNullInside(ret)
       /\ Nodes(ret, <<>>) = Nodes(arg, <<>>)
       /\ ret.t = arg.t
       /\ arg.t \notin {"null", "obj", "arr"} => ret = arg
C23_Witness ==
    /\ arg = JArr(<<JObj(<<<<"k1", JNull>>, <<"k2", JStr(<<"a">>)>>>>), JArr(<<JNull>>)>>)
    /\ ret = JArr(<<JObj(<<<<"k2", JStr(<<"a">>)>>>>), JArr(<<>>)>>)

\* some entry of the log-protect list is a prefix of the method name
Protected(call, log_protect) ==
    \E i \in DOMAIN log_protect :
        /\ Len(log_protect[i]) <= Len(call.method)
        /\ SubSeq(call.method, 1, Len(log_protect[i])) = log_protect[i]
\* the last n elements of a line
Ending(line, n) == SubSeq(line, Len(line) - n + 1, Len(line))
RECURSIVE Dumped(_, _)
Dumped(params, i) ==
    IF i > Len(params) THEN <<>>
    ELSE (IF i > 1 THEN <<",", " ">> ELSE <<>>) \o dump(params[i]) \o Dumped(params, i + 1)
Logged(i) == ret # Pending /\ arg.calls[i].has_method

\* C24: in both gateways the line of a call whose method starts with an entry
\* of the log-protect list ends with **PARAMS REDACTED** in place of the
\* parameters, so two calls that differ only in their parameters have the same
\* line; with no such entry the line ends with the dumped parameters
C24_LogProtect ==
    \A i \in 1..2 :
        Logged(i)
        => LET call == arg.calls[i]
               line == ret[i].line
               shown == <<" ">> \o call.method \o <<" ">>
           IN  /\ ret[i].ok
               /\ Protected(call, arg.log_protect)
                  => /\ Ending(line, Len(shown) + 1) = shown \o <<"**PARAMS REDACTED**">>
                     /\ \A j \in 1..2 :
                            (Logged(j) /\ arg.calls[j].method = call.method)
                            => ret[j].line = line
               /\ ~Protected(call, arg.log_protect)
                  => LET params == Dumped(call.params, 1)
                     IN  Ending(line, Len(shown) + Len(params)) = shown \o params
C24_Witness ==
    /\ Logged(1) /\ Logged(2)
    /\ arg.gateway = "ws"
    /\ arg.calls[1].method = <<"a", ".", "b">>
    /\ arg.calls[2].method = <<"a", ".", "b">>
    /\ arg.log_protect = <<<<"a", ".">>>>
    /\ arg.calls[1].params = <<JStr(<<"p">>)>>
    /\ arg.calls[2].params = <<JNum(<<"1">>), JStr(<<"p">>)>>
    /\ ret[1].line = ret[2].line

\* the TTL the watcher was configured with
ConfiguredTtl ==
    IF watcher.env.set /\ watcher.env.parsed THEN watcher.env.v ELSE 1800
\* the tick's line has been written
TickComplete ==
    /\ watcher.pc = "sleep"
    /\ emitted.count > 0
    /\ emitted.last.time = watcher.tick
TickKeys == {watcher.keys[i] : i \in DOMAIN watcher.keys}
ReadStale(key) == watcher.stats[key].has_ttl /\ watcher.stats[key].ttl = -1

\* C25: in a tick set_key_timeout is called only for opensrf:* keys whose ttl
\* was read as -1, with the configured TTL (1800 by default), never for a key
\* read with a TTL, and by the end of the tick for every key read as -1
C25_TtlOnlyForStale ==
    /\ watcher.pc = "set_key_timeout"
       => LET key == watcher.keys[watcher.i]
          IN  key[1] = "opensrf:" /\ ReadStale(key)
    /\ \A call \in watcher.calls :
        /\ call[1][1] = "opensrf:"
        /\ call[2] = ConfiguredTtl
        /\ watcher.keys # <<>> => call[1] \in TickKeys /\ ReadStale(call[1])
    /\ TickComplete
       => \A key \in TickKeys : ReadStale(key) => <<key, ConfiguredTtl>> \in watcher.calls
    /\ \A key \in Keys : broker.lists[key].ttl = ConfiguredTtl => key[1] = "opensrf:"
C25_Witness ==
    /\ TickComplete
    /\ ~watcher.env.set
    /\ watcher.keys = <<KeyA, KeyB>>
    /\ watcher.calls = {<<KeyA, 1800>>}
    /\ broker.lists[KeyA].ttl = 1800
    /\ watcher.stats[KeyB].ttl = 42
    /\ broker.lists[KeyB].ttl = 42

\* a polling tick ends: the loop is back at its sleep or watch() has returned
TickEnds ==
    \/ watcher.pc \notin {"sleep", "returned"} /\ watcher'.pc \in {"sleep", "returned"}
    \/ watcher.pc = "sleep" /\ watcher'.tick = watcher.tick + 1
                            /\ watcher'.pc \in {"sleep", "returned"}
OneMoreLine == emitted'.count = emitted.count + 1
\* C26 as stated: every polling tick emits exactly one line
C26_OneLinePerTick ==
    [][/\ emitted'.count \in {emitted.count, emitted.count + 1}
       /\ TickEnds => OneMoreLine]_vars

\* C26: a line is emitted exactly at the end of each tick in which keys()
\* returned a key and no llen or set_key_timeout error made watch() return; it
\* holds the time and, per key of the tick, count (and next_value when lrange
\* gave one) when llen was above 0 and ttl when the ttl read succeeded
C26_OneLinePerTickWithKeys ==
    [][/\ emitted'.count \in {emitted.count, emitted.count + 1}
       /\ emitted'.count = emitted.count => emitted' = emitted
       /\ OneMoreLine <=> (TickEnds /\ watcher.keys # <<>> /\ watcher'.pc = "sleep"
                                    /\ watcher.pc # "sleep")
       /\ OneMoreLine
          => LET line == emitted'.last
             IN  /\ line.time = watcher.tick
                 /\ emitted.last.time < line.time
                 /\ line.stats = watcher'.stats
                 /\ \A key \in Keys \ TickKeys : line.stats[key] = Absent
                 /\ \A key \in Keys :
                        line.stats[key].has_next => line.stats[key].has_count
       /\ (watcher.pc = "llen" /\ watcher'.pc \notin {"llen", "returned"})
          => LET key == watcher.keys[watcher.i]
             IN  /\ watcher'.stats[key].has_count <=> broker.lists[key].len > 0
                 /\ watcher'.stats[key].has_count
                    => watcher'.stats[key].count = broker.lists[key].len
       /\ (watcher.pc = "ttl" /\ watcher' # watcher)
          => LET key == watcher.keys[watcher.i]
             IN  watcher'.stats[key].has_ttl
                 => watcher'.stats[key].ttl = broker.lists[key].ttl]_vars
C26_Witness ==
    /\ watcher.tick = 2
    /\ watcher.pc = "sleep"
    /\ watcher.keys = <<>>
    /\ emitted.count = 1
    /\ emitted.last.time = 1
    /\ emitted.last.stats[KeyA] = [has_count |-> TRUE, count |-> 1, has_next |-> TRUE,
                                   has_ttl |-> TRUE, ttl |-> -1]
    /\ emitted.last.stats[KeyB] = Absent

\* C27: when watch() has returned after a broker error, polling resumes on a
\* new bus connection
C27_NewConnection ==
    [][(watcher.pc = "returned" /\ watcher'.pc = "sleep")
       => watcher'.connections = watcher.connections + 1]_vars

\* C28: request_queue changes only by an accepted Text frame going to its back
\* and by the relay loop taking its front; what the loop pushes to the bus is
\* made from the frame it took, after what the pass pushed before: frames are
\* relayed in the order received, none twice, none overtaken
C28_FifoRelay ==
    [][/\ request_queue' # request_queue
          => \/ /\ TakesText
                /\ request_queue' = request_queue \o <<[frame |-> Head(chan).msg]>>
             \/ /\ main = "queue"
                /\ request_queue # <<>>
                /\ request_queue' = SubSeq(request_queue, 2, Len(request_queue))
       /\ (bus_sent' # bus_sent /\ bus_sent' # <<>>)
          => /\ Pops
             /\ Len(bus_sent') = Len(bus_sent) + 1
             /\ SubSeq(bus_sent', 1, Len(bus_sent)) = bus_sent
             /\ bus_sent'[Len(bus_sent')].src = request_queue[1]
             /\ bus_sent'[Len(bus_sent')].tm.thread = request_queue[1].frame.thread]_vars
C28_Witness ==
    /\ Len(bus_sent) = 2
    /\ bus_sent[1].src # bus_sent[2].src
    /\ bus_sent[1].src.frame.osrf_msg = Array(<<"DISCONNECT">>)
    /\ bus_sent[2].src.frame.osrf_msg = Array(<<"CONNECT">>)

\* C29: whenever the main loop is back at its receive, having handled an inbound
\* frame or a reply without ending the session, request_queue is empty or
\* reqs_in_flight has reached the limit
C29_DequeueRule ==
    main = "recv" => (request_queue = <<>> \/ reqs_in_flight >= max_parallel)
C29_Witness ==
    /\ main = "recv"
    /\ cur = Idle
    /\ Len(request_queue) = 2
    /\ reqs_in_flight = max_parallel

\* the messages of a relayed TransportMessage
Mentions(e, mtype) == \E k \in DOMAIN e.tm.body : e.tm.body[k] = mtype
TheRouter == <<"router", "private.localhost">>
\* in one pass of the relay loop: i before j on the same thread, with no
\* Disconnect on that thread relayed from i up to j
SameSession(i, j) ==
    /\ i < j
    /\ bus_sent[i].tm.thread = bus_sent[j].tm.thread
    /\ \A k \in i..(j - 1) :
           bus_sent[k].tm.thread = bus_sent[i].tm.thread
           => ~Mentions(bus_sent[k], "DISCONNECT")

\* C30 as stated: a frame on T relayed after T's Connect and before T's
\* Disconnect never goes to the router
C30_StickyAfterConnect ==
    \A i \in DOMAIN bus_sent : \A j \in DOMAIN bus_sent :
        (SameSession(i, j) /\ Mentions(bus_sent[i], "CONNECT"))
        => bus_sent[j].queue # TheRouter

\* C30: a frame on T relayed while osrf_sessions holds T's worker address is
\* pushed to that worker's queue and never to the router, and one relayed
\* while it holds none goes to the router, also after T's Connect; within a
\* pass the frames of a thread all go the same way until a Disconnect
C30_StickyWhileCached ==
    /\ [][Relays =>
            LET thread == Head(request_queue).frame.thread
                e == Last(bus_sent')
            IN  /\ thread \in DOMAIN osrf_sessions <=> e.queue # TheRouter
                /\ thread \in DOMAIN osrf_sessions
                   => /\ e.queue = osrf_sessions[thread]
                      /\ e.tm.to = osrf_sessions[thread]
                      /\ e.queue \in {WorkerW, WorkerV}]_vars
    /\ [](\A i \in DOMAIN bus_sent : \A j \in DOMAIN bus_sent :
            SameSession(i, j)
            => /\ bus_sent[j].queue = bus_sent[i].queue
               /\ bus_sent[j].tm.to = bus_sent[i].tm.to)
C30_Witness ==
    /\ Len(bus_sent) = 2
    /\ cur.kind = "Reply"
    /\ bus_sent[1].tm.body = <<"CONNECT">>
    /\ \A i \in 1..2 : /\ bus_sent[i].tm.thread = "T1"
                       /\ bus_sent[i].queue = WorkerW
                       /\ bus_sent[i].tm.to = WorkerW

\* C31: every TransportMessage pushed to the bus has a body that is not empty
C31_BodyNotEmpty ==
    \A i \in DOMAIN bus_sent : bus_sent[i].tm.body # <<>>

\* the sub-messages of a frame, as many as the wrapper holds
SubMessages(f) == IF f.osrf_msg.is_array THEN f.osrf_msg.list ELSE <<f.osrf_msg.value>>
\* a frame the validation is said to refuse
Refused(f) ==
    \/ ~f.valid
    \/ f.thread = Null
    \/ f.thread = "TLONG"
    \/ f.service = Null
    \/ \E i \in DOMAIN SubMessages(f) :
           SubMessages(f)[i] \notin {"CONNECT", "REQUEST", "DISCONNECT", Null}

\* C32: a dequeued frame that is no JSON, has no thread or service, has too
\* long a thread, or holds a sub-message that is unparsable or no Connect,
\* Request or Disconnect, pushes nothing to the bus and ends the main loop of
\* its session only
C32_FrameValidation ==
    [][(Pops /\ Refused(Head(request_queue).frame))
       => /\ bus_sent' = bus_sent
          /\ main' = "error"
          /\ UNCHANGED cvars]_vars

\* C33: while the session is neither closed nor aborted and every relayed
\* Connect and Request is answered, the frame at the head of request_queue
\* is relayed to the bus at some later time; bus_sent is empty until the
\* loop iteration of listen relays a frame
C33_BacklogDrains ==
    \A f \in BusFrames :
        (/\ request_queue # <<>>
         /\ Head(request_queue).frame = f
         /\ bus_sent = <<>>)
        ~> (\/ MainGone
            \/ /\ bus_sent # <<>>
               /\ Last(bus_sent).src.frame = f
               /\ Last(bus_sent).tm.body = MsgList(f.osrf_msg))

\* a reply has let the main task relay a frame that waited in the backlog
C33_Witness ==
    /\ cur.kind = "Reply"
    /\ ~CanRelay(cur.rif0)
    /\ cur.qlen0 > Len(request_queue)
    /\ main = "queue"
    /\ bus_sent # <<>>

\* the send to the router succeeded: relay_to_osrf went on to its recv loop
RelayedToBus == sends > 0 /\ received # <<>>
\* C35: a request that is answered 405 Method Not Allowed has caused no
\* message to be sent to the bus
C35_NoRelayFor405 ==
    (response.written /\ response.leader = Leader405) => ~RelayedToBus

\* a message relay_to_osrf took values from for the response
Contributes(r) ==
    /\ r.kind = "Some"
    /\ extract_responses(request.format, r, None).ok
    /\ extract_responses(request.format, r, None).replies # <<>>
\* C34: the values in the response body of a request come from messages of
\* the thread of that request only
C34_ReplyAttribution ==
    (/\ gw_pc = "idle"
     /\ response.written
     /\ response.leader = Leader200
     /\ request.http_method \in {"GET", "POST"})
    => \A i \in DOMAIN received :
          Contributes(received[i]) => received[i].thread = ThreadOf(handled)

\* GatewaySpec reaches the state LateSpec starts from
LateInitReached == ~LateInit

\* C36: when the client has closed the connection before the header block
\* or the Content-Length bytes were complete, the read that returns 0 bytes
\* makes read_request return
C36_ReturnsAtEof ==
    [][read_request_read_zero => ret'.kind \in {"Ok", "Err"}]_vars

\* a read of 0 bytes leaves the loop where it was
EofPassChangesNothing ==
    [][read_request_read_zero => /\ ret'.kind = "Reading"
                                 /\ ret'.chars = ret.chars
                                 /\ ret'.parsed = ret.parsed
                                 /\ AtEof']_vars

\* the key of the pass of the for loop the watcher is in
KeyAtHand == watcher.keys[watcher.i]
\* the watcher takes a step at the given call
WatchStep(pc) == watcher.pc = pc /\ watcher' # watcher

\* C37: watch returns true only out of a failing keys, llen or
\* set_key_timeout; lrange and ttl never make it return, and after a failing
\* ttl, which leaves no ttl in the stats of the key, the tick goes on with
\* the next key; watch has no other way out, and main calls it again
C37_ReturnCondition ==
    /\ [](watcher.pc \in {"sleep", "llen", "lrange", "ttl", "set_key_timeout",
                           "returned"})
    /\ [][(watcher'.pc = "returned" /\ watcher.pc # "returned")
            => watcher.pc \in {"sleep", "llen", "set_key_timeout"}]_vars
    /\ [][WatchStep("lrange") => watcher'.pc = "ttl"]_vars
    /\ [][WatchStep("ttl")
            => /\ watcher'.pc \in {"set_key_timeout", "llen", "sleep"}
               /\ ~watcher'.stats[KeyAtHand].has_ttl
                    => watcher' = AfterKey(watcher)]_vars
    /\ [][WatchStep("returned") => watcher'.pc = "sleep"]_vars

\* watch has returned true in a tick in which it called set_key_timeout
C37_Witness ==
    /\ watcher.pc = "returned"
    /\ watcher.tick > 0
    /\ watcher.calls # {}

\* the handler takes a step at the given place
CheckinStep(pc) == ret.pc = pc /\ ret' # ret
Returns == ret.pc \in {"Ok", "Err"}

\* C38: a checkin attempt is followed by a retry with override exactly when
\* it was made without override and the textcode of its event is in
\* checkin_override; a retry is not retried, so there are at most two
\* attempts; the result of the retry is the one returned, whatever its
\* textcode; handle_checkin returns
C38_OverrideRetry ==
    /\ [](ret.attempts <= 2)
    /\ [][CheckinStep("event")
            => /\ (ret'.pc = "checkin")
                    <=> (~ret.ovride /\ ret.evt \in arg.checkin_override)
               /\ ret'.pc = "checkin" => ret'.ovride /\ ret.attempts = 1
               /\ ret.attempts = 2 => ret'.pc = "result"]_vars
    /\ []((ret.pc = "Ok" /\ ret.attempts > 0)
            => ret.out = CheckinResult(ret.evt))
    /\ <>Returns

\* the result of a retry has been returned, its textcode being one of
\* checkin_override
C38_Witness ==
    /\ ret.pc = "Ok"
    /\ ret.attempts = 2
    /\ ret.out.textcode \in arg.checkin_override
    /\ ~ret.out.ok

\* the calls of the attempt that was started last
RECURSIVE LastAttempt(_)
LastAttempt(log) ==
    IF log = <<>> \/ Last(log) = "checkin" THEN <<>>
    ELSE Append(LastAttempt(SubSeq(log, 1, Len(log) - 1)), Last(log))
Calls(log, names) == SelectSeq(log, LAMBDA call : call \in names)

\* C39: in checkin_native a begin that succeeded is followed by one call of
\* commit when circulator.checkin returned Ok, of rollback when it returned
\* Err, and by no other; the call is made before a retry and before the
\* result is built, and no path returns without it
C39_NativeTransaction ==
    LET attempt == LastAttempt(ret.log)
        ended == Calls(attempt, {"commit", "rollback"})
    IN  /\ Len(ended) <= 1
        /\ ended # <<>> => /\ attempt[1] = "begin"
                            /\ attempt[2] = ended[1]
                            /\ (ended[1] = "commit" <=> ret.circ = "Ok")
                            /\ (ended[1] = "rollback" <=> ret.circ = "Err")
        /\ (Calls(attempt, {"begin"}) # <<>>
            /\ (Returns \/ Calls(attempt, {"retry", "result"}) # <<>>))
           => Len(ended) = 1
        /\ Len(Calls(ret.log, {"commit", "rollback"}))
             <= Len(Calls(ret.log, {"begin"}))

\* a native checkin was rolled back and retried, and the retry is committed
\* and its result built
C39_Witness ==
    /\ ret.pc = "Ok"
    /\ ret.attempts = 2
    /\ Calls(ret.log, {"begin", "commit", "rollback", "retry", "result"})
         = <<"begin", "rollback", "retry", "begin", "commit", "result">>

====
